---- MODULE Spec2Model ----
(***************************************************************************)
(* Conversation state synchronisation of the crapulex (bourracho) chat.    *)
(* The React client (ChatPage, VoteMenu, WelcomeScreen, useWebSocket) is   *)
(* modelled from the source; the State Mutators of the backend, which the  *)
(* frontend only calls over HTTP, are modelled from the specification.     *)
(***************************************************************************)
EXTENDS Integers, Sequences, FiniteSets, TLC

\* ------------------------------------------------------------------ bounds
\* Message ids the server may assign in the synchronisation model.
MaxMsgs == 1
\* Message ids that occur in the event-application model.
MaxId == 2
\* PATCH requests of the observed client that may be in flight together.
MaxInflight == 1
\* Abnormal closes of the observed client's WebSocket.
MaxDrops == 1
\* Commands (of all members together) issued in one behaviour.
MaxCmds == 3
\* Clicks on the lock / visibility toggles of the WelcomeScreen.
MaxClicks == 3

\* ------------------------------------------------------------- data model
\* The observed ChatPage user (props.user.id).
Me == "A"
\* Members in join order (ConversationResponse.users_ids).
UsersIds == <<"B", "A">>
Users == {UsersIds[i] : i \in 1..Len(UsersIds)}
\* The owner is the first member (users_ids[0] in the source).
Owner == UsersIds[1]
\* The emoji offered by the reaction buttons (two of the six stand for all).
Emojis == {"thumb", "heart"}
Contents == {"", "txt"}
Names == {"n1", "n2"}
\* null / undefined
NoId == 0
EmptyVotes == [u \in {} |-> ""]

Msg(id, content, issuer, reacts, votes) ==
  [id |-> id, content |-> content, issuer_id |-> issuer,
   reacts |-> reacts, votes |-> votes]

NoMsg == Msg(NoId, "", "", <<>>, EmptyVotes)

ReactPost(emoji, issuer) == [emoji |-> emoji, issuer_id |-> issuer]

Ids(list) == {list[i].id : i \in 1..Len(list)}

\* prev.some(m => m.id === id)
SomeId(list, id) == \E i \in 1..Len(list) : list[i].id = id

\* Mutant of MapReplace: an unknown id is inserted (upsert).
MapUpsert(list, id, updated) ==
  IF \E i \in 1..Len(list) : list[i].id = id
    THEN [i \in 1..Len(list) |-> IF list[i].id = id THEN updated ELSE list[i]]
    ELSE Append(list, updated)

\* prev.map(msg => msg.id === id ? updated : msg)
MapReplace(list, id, updated) ==
  [i \in 1..Len(list) |-> IF list[i].id = id THEN updated ELSE list[i]]

\* JavaScript truthiness of an id and of a string.
TruthyId(id) == id # NoId
TruthyStr(s) == s # ""

\* ------------------------------------------------------- WebSocket events
\* One wire object; fields a variant does not carry are null.  A raw message
\* (no type wrapper) has type "" and its own fields in `message`.
Event(type, mid, msg, name, locked, visible, by) ==
  [type |-> type, message_id |-> mid, message |-> msg, new_name |-> name,
   is_locked |-> locked, is_visible |-> visible, changed_by |-> by]

RawMessageEv(msg) == Event("", NoId, msg, "", FALSE, FALSE, "")
ChatMessageEv(msg) == Event("chat_message", NoId, msg, "", FALSE, FALSE, "")
ReactionEv(msg, by) ==
  Event("message_reaction_updated", msg.id, msg, "", FALSE, FALSE, by)
VoteEv(msg, by) ==
  Event("message_vote_updated", msg.id, msg, "", FALSE, FALSE, by)
NameEv(name, by) ==
  Event("conversation_name_changed", NoId, NoMsg, name, FALSE, FALSE, by)
LockEv(locked, by) ==
  Event("conversation_lock_changed", NoId, NoMsg, "", locked, FALSE, by)
VisibilityEv(visible, by) ==
  Event("conversation_visibility_changed", NoId, NoMsg, "", FALSE, visible, by)

\* ------------------------------------------------ ChatPage: onMessage
\* The state onMessage writes: messages, conversation and the two analysis
\* flags.
ClientState(msgs, conv, button, modal) ==
  [messages |-> msgs, conversation |-> conv,
   shouldShowAnalysisButton |-> button, showAnalysisModal |-> modal]

\* Mutant of AppendIfNew: the existence check is left out.
AppendAlways(list, msg) == Append(list, msg)

\* setMessages(prev => prev.some(...) ? prev : [...prev, newMessage])
AppendIfNew(list, msg) ==
  IF SomeId(list, msg.id) THEN list ELSE Append(list, msg)

\* if (!message.type && message.id && message.content)
IsRawMessage(ev) ==
  /\ ev.type = ""
  /\ TruthyId(ev.message.id)
  /\ TruthyStr(ev.message.content)

\* Mutant of ApplyLock: locking also hides the conversation.
ApplyLockAndHide(conv, locked) ==
  [conv EXCEPT !.is_locked = locked, !.is_visible = FALSE]

\* setConversation(prev => ({ ...prev, is_locked: message.is_locked }))
ApplyLock(conv, locked) == [conv EXCEPT !.is_locked = locked]

\* setConversation(prev => ({ ...prev, is_visible: message.is_visible }))
ApplyVisibility(conv, visible) == [conv EXCEPT !.is_visible = visible]

onMessage(st, ev) ==
  IF IsRawMessage(ev)
    THEN [st EXCEPT !.messages = AppendIfNew(st.messages, ev.message)]
  ELSE IF ev.type = "conversation_name_changed"
    THEN [st EXCEPT !.conversation.name = ev.new_name]
  ELSE IF ev.type = "chat_message"
    THEN [st EXCEPT !.messages = AppendIfNew(st.messages, ev.message)]
  ELSE IF ev.type = "conversation_lock_changed"
    THEN [st EXCEPT !.conversation = ApplyLock(st.conversation, ev.is_locked),
                    !.shouldShowAnalysisButton = ev.is_locked,
                    !.showAnalysisModal =
                       IF ev.is_locked THEN st.showAnalysisModal ELSE FALSE]
  ELSE IF ev.type = "conversation_visibility_changed"
    THEN [st EXCEPT !.conversation =
                       ApplyVisibility(st.conversation, ev.is_visible)]
  ELSE IF ev.type \in {"message_reaction_updated", "message_vote_updated"}
    THEN [st EXCEPT !.messages =
                       MapReplace(st.messages, ev.message_id, ev.message)]
  ELSE st

\* ------------------------------------------------------------------ state
VARIABLES
  \* ChatPage (one mount, user Me) and its VoteMenu
  messages, conversation, shouldShowAnalysisButton, showAnalysisModal,
  showVoteMenu, isVoting,
  \* useWebSocket of that mount: socket state, events in flight to it
  wsState, wsQueue, reconnectCount, reconnectTimer,
  \* fetchMessages and the PATCH requests / responses in flight
  fetchPc, fetchData, patchReqs, patchResps,
  \* the backend: message sequence, conversation flags, side effects
  srvMsgs, srvConv, lockEvents, analysisTriggers,
  \* history: ids delivered by chat_message, abnormal closes, whether every
  \* mutation so far happened after the fetch with the socket subscribed,
  \* commands issued, last vote commanded, reactions commanded an odd number
  \* of times, whether a vote was overwritten, whether a reaction was removed
  delivered, drops, cleanStart, cmds, ownIssued, lastVote, toggled,
  revoted, unreacted,
  \* the event under application and how often it was applied (SpecApply)
  ev, applied, changed,
  \* WelcomeScreen of the owner: its conversation entry, isLoading, the
  \* PATCH conversation requests in flight, responses not yet continued, GET
  \* conversations requests and responses in flight, clicks so far
  conversations, isLoading, convReqs, convResps, listReqs, listResps, clicks,
  \* history: lock values sent since the list was last installed, whether it
  \* was installed again, SetLock commands that found the value in place,
  \* owner-only commands of another member
  lockSent, refetched, noops, forbidden,
  \* UserManagementModal of that mount, open with its users loaded: the
  \* signed-in user, users (pseudo and smiley of each member), the field
  \* under edit and the three inputs, the save requests and responses in
  \* flight, the stored membership data, the kinds of request that failed
  currentUser, users, editingUserId, editingField, pseudoInput, smileyInput,
  conversationNameInput, saveReqs, saveResps, srvUsers, failed,
  \* App: the signed-in user (useAuth), whether useAuth is loading, whether a
  \* conversation is shown, isJoiningConversation, whether the address is a
  \* join link, whether the routing effect is due, the join flows under way;
  \* the backend's member list and the UserJoined events it emitted; join
  \* requests sent by App, joins of other sessions
  appUser, authLoading, currentConversation, isJoiningConversation, urlJoin,
  effectPending, flows, srvMembers, userJoined, joinsIssued, directJoins,
  \* ConversationAnalysisModal: analysis, isLoading, error, its request, why
  \* the last request failed, the reset timer of handleClose; analyses the
  \* generator has finished
  analysis, analysisLoading, analysisError, analysisPc, errorCause,
  resetTimer, generated,
  \* useWebSocket, one instance: the WebSockets it has constructed so far,
  \* the sockets ws.current does not hold by readyState, ws.current (null or
  \* the readyState of its socket), isConnected, connectionError,
  \* reconnectTimeoutId.current (none, a pending timer, a timer that has
  \* fired), pending timers the ref no longer holds, whether the component
  \* is mounted; history: whether disconnect() ran after the last call of
  \* connect() from outside the timer, reconnections scheduled since the last
  \* open, calls of the returned reconnect()
  made, socks, wsRef, isConnected, connectionError, timerRef, strayTimers,
  mount, disconnected, sinceOpen, calls,
  \* backend: the stored message of each conversation, the critical section
  \* of each conversation, the commands under way, the events accepted per
  \* conversation; Hub: subscribers per conversation, the conversation of
  \* each connection, the events queued for each connection; history: the
  \* events each connection handed to onMessage, the events accepted when it
  \* subscribed, subscriptions made
  store, mutex, tasks, accepted, subs, connConv, outbox, observed,
  subscribedAt, links,
  \* ChatPage input area: isSending, messageInput; PhotoUploader: whether the
  \* file dialog is open, whether a photo is selected; AudioRecorder: whether
  \* it records, whether a recording is kept; the POST requests and responses
  \* in flight; history: ids of the messages whose success sendMessage has
  \* seen, kinds of message sent while the local conversation was locked,
  \* requests sent
  isSending, messageInput, dialogOpen, selectedPhoto, isRecording, audioBlob,
  postReq, postResp, sentOk, lockedPosts, sends,
  \* polling ChatPage: the GET messages requests in flight, poll requests
  \* sent
  polls, ticks,
  \* useAudioRecorder (with isRecording and audioBlob above): isPaused,
  \* recordingTime, whether timerRef holds a running interval, running
  \* intervals the ref does not hold, calls of startRecording waiting for
  \* getUserMedia, stop events of a MediaRecorder due, calls of
  \* startRecording
  isPaused, recordingTime, audioTimer, strayIntervals, pendingStarts,
  stopsPending, starts

wsVars == <<wsState, wsQueue, reconnectCount, reconnectTimer>>
httpVars == <<fetchPc, fetchData, patchReqs, patchResps>>
srvVars == <<srvMsgs, srvConv, lockEvents, analysisTriggers>>
cmdHist == <<lastVote, toggled, revoted, unreacted>>
histVars == <<delivered, drops, cleanStart, cmds, ownIssued, cmdHist>>
chatVars == <<messages, conversation, shouldShowAnalysisButton,
              showAnalysisModal>>
menuVars == <<showVoteMenu, isVoting>>
applyVars == <<ev, applied, changed>>
welcomeVars == <<conversations, isLoading, convReqs, convResps, listReqs,
                 listResps, clicks, lockSent, refetched, noops, forbidden>>
editVars == <<editingUserId, editingField, pseudoInput, smileyInput,
              conversationNameInput>>
manageVars == <<currentUser, users, editVars, saveReqs, saveResps, srvUsers,
                failed>>
joinVars == <<appUser, authLoading, currentConversation,
              isJoiningConversation, urlJoin, effectPending, flows,
              srvMembers, userJoined, joinsIssued, directJoins>>
analysisVars == <<analysis, analysisLoading, analysisError, analysisPc,
                  errorCause, resetTimer, generated>>
sockVars == <<made, socks, wsRef, isConnected, connectionError, timerRef,
              strayTimers, mount, disconnected, sinceOpen, calls>>
oldVars == <<chatVars, menuVars, httpVars, srvVars, histVars, applyVars,
             welcomeVars, manageVars, joinVars, analysisVars>>
hubVars == <<store, mutex, tasks, accepted, subs, connConv, outbox, observed,
             subscribedAt, links>>
sendVars == <<isSending, messageInput, dialogOpen, selectedPhoto, isRecording,
              audioBlob, postReq, postResp, sentOk, lockedPosts, sends>>
pollVars == <<polls, ticks>>
audioVars == <<isPaused, recordingTime, audioTimer, strayIntervals,
               pendingStarts, stopsPending, starts>>
extraVars == <<sockVars, hubVars, sendVars, pollVars, audioVars>>
vars == <<chatVars, menuVars, wsVars, httpVars, srvVars, histVars, applyVars,
          welcomeVars, manageVars, joinVars, analysisVars, extraVars>>

\* The ChatPage state as the record onMessage works on, and its write-back.
Client == ClientState(messages, conversation, shouldShowAnalysisButton,
                      showAnalysisModal)

SetClient(st) ==
  /\ messages' = st.messages
  /\ conversation' = st.conversation
  /\ shouldShowAnalysisButton' = st.shouldShowAnalysisButton
  /\ showAnalysisModal' = st.showAnalysisModal

Conv(name, locked, visible) ==
  [name |-> name, is_locked |-> locked, is_visible |-> visible]

\* ------------------------------------------- event application (SpecApply)
\* onMessage as a function of an arbitrary client state and event.
\* The versions of a message that occur: a media-only message (empty content)
\* and a text message reacted to and voted on.
MsgVersions(id) ==
  { Msg(id, "", "B", <<>>, EmptyVotes),
    Msg(id, "txt", "B", <<ReactPost("thumb", "A")>>, [u \in {"A"} |-> "B"]) }

ApplyIds == 1..MaxId

\* Fetched lists: messages with pairwise different ids, as the server's
\* message sequence has them.
FetchedLists ==
  {<<>>} \cup
  UNION { {<<m>> : m \in MsgVersions(i)} : i \in ApplyIds } \cup
  UNION { {<<m, n>> : m \in MsgVersions(i), n \in MsgVersions(j)} :
            <<i, j>> \in {p \in ApplyIds \X ApplyIds : p[1] # p[2]} }

\* MessagePosted on the wire: wrapped in chat_message, or a raw message.
PostedEvents ==
  UNION { {ChatMessageEv(m), RawMessageEv(m)} : m \in
            UNION { MsgVersions(i) : i \in ApplyIds } }

SnapshotEvents ==
  UNION { {ReactionEv(m, "B"), VoteEv(m, "B")} : m \in
            UNION { MsgVersions(i) : i \in ApplyIds } }

ConversationEvents ==
  {NameEv(n, "B") : n \in Names} \cup
  {LockEv(b, "B") : b \in BOOLEAN} \cup
  {VisibilityEv(b, "B") : b \in BOOLEAN}

ApplyEvents == PostedEvents \cup SnapshotEvents \cup ConversationEvents

MenuIdle ==
  /\ showVoteMenu = NoId
  /\ isVoting = FALSE

\* The parts of the state a specification does not use stay at these values.
TransportIdle ==
  /\ wsState = "closed"
  /\ wsQueue = <<>>
  /\ reconnectCount = 0
  /\ reconnectTimer = FALSE
  /\ fetchPc = "done"
  /\ fetchData = <<>>
  /\ patchReqs = <<>>
  /\ patchResps = <<>>

ServerIdle ==
  /\ srvMsgs = <<>>
  /\ srvConv = Conv("n1", FALSE, FALSE)
  /\ lockEvents = 0
  /\ analysisTriggers = 0

HistoryIdle ==
  /\ delivered = {}
  /\ drops = 0
  /\ cleanStart = TRUE
  /\ cmds = 0
  /\ ownIssued = FALSE
  /\ lastVote = EmptyVotes
  /\ toggled = {}
  /\ revoted = {}
  /\ unreacted = {}

ApplyIdle ==
  /\ ev = NameEv("n1", "B")
  /\ applied = 0
  /\ changed = FALSE

WelcomeIdle ==
  /\ conversations = Conv("n1", FALSE, FALSE)
  /\ isLoading = FALSE
  /\ convReqs = <<>>
  /\ convResps = 0
  /\ listReqs = 0
  /\ listResps = <<>>
  /\ clicks = 0
  /\ lockSent = {}
  /\ refetched = FALSE
  /\ noops = 0
  /\ forbidden = 0

JoinIdle ==
  /\ appUser = TRUE
  /\ authLoading = FALSE
  /\ currentConversation = TRUE
  /\ isJoiningConversation = FALSE
  /\ urlJoin = FALSE
  /\ effectPending = FALSE
  /\ flows = <<>>
  /\ srvMembers = UsersIds
  /\ userJoined = <<>>
  /\ joinsIssued = 0
  /\ directJoins = <<>>

AnalysisIdle ==
  /\ analysis = FALSE
  /\ analysisLoading = FALSE
  /\ analysisError = FALSE
  /\ analysisPc = "idle"
  /\ errorCause = ""
  /\ resetTimer = FALSE
  /\ generated = 0

\* No useWebSocket instance under study.
SockIdle ==
  /\ made = 0
  /\ socks = [s \in {"connecting", "open", "closingConnecting",
                      "closingOpen"} |-> 0]
  /\ wsRef = "null"
  /\ isConnected = FALSE
  /\ connectionError = ""
  /\ timerRef = "none"
  /\ strayTimers = 0
  /\ mount = "before"
  /\ disconnected = FALSE
  /\ sinceOpen = 0
  /\ calls = 0

\* No backend under study.
HubIdle ==
  /\ store = <<>>
  /\ mutex = <<>>
  /\ tasks = <<>>
  /\ accepted = <<>>
  /\ subs = <<>>
  /\ connConv = <<>>
  /\ outbox = <<>>
  /\ observed = <<>>
  /\ subscribedAt = <<>>
  /\ links = 0

\* The input area of the ChatPage untouched.
SendIdle ==
  /\ isSending = FALSE
  /\ messageInput = ""
  /\ dialogOpen = FALSE
  /\ selectedPhoto = FALSE
  /\ isRecording = FALSE
  /\ audioBlob = FALSE
  /\ postReq = <<>>
  /\ postResp = <<>>
  /\ sentOk = {}
  /\ lockedPosts = {}
  /\ sends = 0

\* No polling ChatPage under study.
PollIdle ==
  /\ polls = <<>>
  /\ ticks = 0

\* The rest of useAudioRecorder untouched.
AudioIdle ==
  /\ isPaused = FALSE
  /\ recordingTime = 0
  /\ audioTimer = FALSE
  /\ strayIntervals = 0
  /\ pendingStarts = 0
  /\ stopsPending = 0
  /\ starts = 0

ExtraIdle ==
  /\ SockIdle
  /\ HubIdle
  /\ SendIdle
  /\ PollIdle
  /\ AudioIdle

\* null / '' of the modal's state
NoUser == ""
NoField == "none"
NoText == <<>>
MemberData(pseudo, smiley) == [pseudo |-> pseudo, smiley |-> smiley]

ManageIdle ==
  /\ currentUser = Me
  /\ users = [u \in Users |-> MemberData(NoText, NoText)]
  /\ editingUserId = NoUser
  /\ editingField = NoField
  /\ pseudoInput = NoText
  /\ smileyInput = NoText
  /\ conversationNameInput = NoText
  /\ saveReqs = <<>>
  /\ saveResps = <<>>
  /\ srvUsers = [u \in Users |-> MemberData(NoText, NoText)]
  /\ failed = {}

InitApply ==
  /\ messages \in FetchedLists
  /\ conversation = Conv("n1", FALSE, FALSE)
  /\ shouldShowAnalysisButton = FALSE
  /\ showAnalysisModal = FALSE
  /\ ev = NameEv("n1", "B")
  /\ applied = 0
  /\ changed = FALSE
  /\ MenuIdle
  /\ TransportIdle
  /\ ServerIdle
  /\ HistoryIdle
  /\ WelcomeIdle
  /\ JoinIdle
  /\ AnalysisIdle
  /\ ExtraIdle
  /\ ManageIdle

\* ws.onmessage delivers event e to onMessage.
Deliver(e) ==
  /\ ev' = e
  /\ applied' = 1
  /\ changed' = (onMessage(Client, e) # Client)
  /\ SetClient(onMessage(Client, e))
  /\ UNCHANGED <<menuVars, wsVars, httpVars, srvVars, histVars, welcomeVars,
                 manageVars, joinVars, analysisVars, extraVars>>

\* The same event is delivered a second time in a row.
Redeliver ==
  /\ applied = 1
  /\ applied' = 2
  /\ UNCHANGED <<ev, changed>>
  /\ SetClient(onMessage(Client, ev))
  /\ UNCHANGED <<menuVars, wsVars, httpVars, srvVars, histVars, welcomeVars,
                 manageVars, joinVars, analysisVars, extraVars>>

NextApply ==
  \/ \E e \in ApplyEvents : Deliver(e)
  \/ Redeliver

SpecApply == InitApply /\ [][NextApply]_vars

\* ------------------------------------------------ backend State Mutators
HasReact(msg, emoji, issuer) ==
  \E i \in 1..Len(msg.reacts) : msg.reacts[i] = ReactPost(emoji, issuer)

\* React: remove the issuer's entry for this emoji if present, else append.
React(msg, issuer, emoji) ==
  IF HasReact(msg, emoji, issuer)
    THEN [msg EXCEPT !.reacts =
            SelectSeq(msg.reacts, LAMBDA r : r # ReactPost(emoji, issuer))]
    ELSE [msg EXCEPT !.reacts = Append(msg.reacts, ReactPost(emoji, issuer))]

RECURSIVE ReactAll(_, _)
ReactAll(msg, posts) ==
  IF posts = <<>> THEN msg
  ELSE ReactAll(React(msg, Head(posts).issuer_id, Head(posts).emoji),
                Tail(posts))

\* Vote: the map is keyed by voter, the last write wins.
Vote(msg, voter, votee) ==
  [msg EXCEPT !.votes =
     [k \in (DOMAIN msg.votes) \cup {voter} |->
        IF k = voter THEN votee ELSE msg.votes[k]]]

VoteAll(msg, payload) ==
  [msg EXCEPT !.votes =
     [k \in (DOMAIN msg.votes) \cup (DOMAIN payload) |->
        IF k \in DOMAIN payload THEN payload[k] ELSE msg.votes[k]]]

\* PATCH of one message: React needs an unlocked, Vote a locked conversation.
PatchAccepted(conv, body) ==
  /\ body.reacts # <<>> => ~conv.is_locked
  /\ body.votes # EmptyVotes => conv.is_locked

PatchMessage(msg, body) == VoteAll(ReactAll(msg, body.reacts), body.votes)

\* SetLock / SetVisibility: owner only, nothing happens when the requested
\* value is the current one.
SetLockChanges(conv, actor, locked) ==
  actor = Owner /\ conv.is_locked # locked

SetVisibilityChanges(conv, actor, visible) ==
  actor = Owner /\ conv.is_visible # visible

\* ---------------------------------------- ChatPage requests (PATCH bodies)
MessageUpdate(id, reacts, votes) ==
  [id |-> id, reacts |-> reacts, votes |-> votes]

\* Mutant of ReactPayload: the reaction is put into the body twice.
ReactPayloadTwice(emoji, userId) ==
  <<ReactPost(emoji, userId), ReactPost(emoji, userId)>>

\* reacts: [{ emoji, issuer_id: user.id }]
ReactPayload(emoji, userId) == <<ReactPost(emoji, userId)>>

\* Mutant of VotePayload: key and value are swapped.
VotePayloadSwapped(userId, votedForUserId) ==
  [u \in {votedForUserId} |-> userId]

\* votes: { [user.id]: votedForUserId }
VotePayload(userId, votedForUserId) == [u \in {userId} |-> votedForUserId]

\* Mutant of ReactionAllowed: the lock guard is missing.
ReactionAlwaysAllowed(conv) == TRUE

\* handleReaction: if (conversation.is_locked) { toast; return }
ReactionAllowed(conv) == ~conv.is_locked

\* The VoteMenu of message id is rendered (and with it the path to
\* handleVote) only while the local conversation is locked.
MenuMounted(menu, conv, msgs) ==
  /\ menu # NoId
  /\ conv.is_locked
  /\ SomeId(msgs, menu)

\* The command a request stands for: the acting user and what was clicked.
ReactCmd(user, id, emoji) ==
  [kind |-> "react", user |-> user, id |-> id, emoji |-> emoji, votee |-> ""]
VoteCmd(user, id, votee) ==
  [kind |-> "vote", user |-> user, id |-> id, emoji |-> "", votee |-> votee]

ReactRequest(user, id, emoji) ==
  [body |-> MessageUpdate(id, ReactPayload(emoji, user), EmptyVotes),
   cmd |-> ReactCmd(user, id, emoji)]
VoteRequest(user, id, votee) ==
  [body |-> MessageUpdate(id, <<>>, VotePayload(user, votee)),
   cmd |-> VoteCmd(user, id, votee)]

\* useWebSocket: reconnectAttempts = 5
reconnectAttempts == 5

\* ------------------------------------------ synchronisation model (Spec)
Init ==
  /\ messages = <<>>
  /\ conversation = Conv("n1", FALSE, FALSE)
  /\ shouldShowAnalysisButton = FALSE
  /\ showAnalysisModal = FALSE
  /\ MenuIdle
  /\ wsState = "connecting"
  /\ wsQueue = <<>>
  /\ reconnectCount = 0
  /\ reconnectTimer = FALSE
  /\ fetchPc = "requested"
  /\ fetchData = <<>>
  /\ patchReqs = <<>>
  /\ patchResps = <<>>
  /\ ServerIdle
  /\ HistoryIdle
  /\ ApplyIdle
  /\ WelcomeIdle
  /\ JoinIdle
  /\ AnalysisIdle
  /\ ExtraIdle
  /\ ManageIdle

RemoveAt(seq, i) ==
  [j \in 1..(Len(seq) - 1) |-> IF j < i THEN seq[j] ELSE seq[j + 1]]

\* The Hub delivers to the connections subscribed at that moment.
Broadcast(e) ==
  wsQueue' = IF wsState = "open" THEN Append(wsQueue, e) ELSE wsQueue

\* A mutation is covered by the client's start if the fetch was installed and
\* the socket had been connected before it.
NoteMutation ==
  cleanStart' =
    (cleanStart /\ fetchPc = "done" /\ (wsState = "open" \/ drops > 0))

\* The history of an accepted command.
NoteCommand(cmd) ==
  /\ lastVote' =
       IF cmd.kind = "vote"
         THEN [k \in (DOMAIN lastVote) \cup {<<cmd.id, cmd.user>>} |->
                 IF k = <<cmd.id, cmd.user>> THEN cmd.votee ELSE lastVote[k]]
         ELSE lastVote
  /\ toggled' =
       IF cmd.kind = "react"
         THEN LET t == <<cmd.id, cmd.emoji, cmd.user>>
              IN IF t \in toggled THEN toggled \ {t} ELSE toggled \cup {t}
         ELSE toggled
  /\ revoted' =
       IF /\ cmd.kind = "vote"
          /\ <<cmd.id, cmd.user>> \in DOMAIN lastVote
          /\ lastVote[<<cmd.id, cmd.user>>] # cmd.votee
         THEN revoted \cup {<<cmd.id, cmd.user>>}
         ELSE revoted
  /\ unreacted' =
       IF cmd.kind = "react" /\ <<cmd.id, cmd.emoji, cmd.user>> \in toggled
         THEN unreacted \cup {<<cmd.id, cmd.emoji, cmd.user>>}
         ELSE unreacted

\* The VoteMenu loses its isVoting state when it is unmounted.
KeepMenu(conv, msgs) ==
  /\ showVoteMenu' = showVoteMenu
  /\ isVoting' = (isVoting /\ MenuMounted(showVoteMenu, conv, msgs))

\* PostMessage by the other member.
OtherPost(content) ==
  /\ cmds < MaxCmds
  /\ Len(srvMsgs) < MaxMsgs
  /\ ~srvConv.is_locked
  /\ LET msg == Msg(Len(srvMsgs) + 1, content, Owner, <<>>, EmptyVotes)
     IN /\ srvMsgs' = Append(srvMsgs, msg)
        /\ Broadcast(ChatMessageEv(msg))
  /\ NoteMutation
  /\ cmds' = cmds + 1
  /\ UNCHANGED <<chatVars, menuVars, wsState, reconnectCount, reconnectTimer,
                 httpVars, srvConv, lockEvents, analysisTriggers, delivered,
                 drops, ownIssued, cmdHist, applyVars, joinVars, analysisVars,
                 extraVars, manageVars, welcomeVars>>

\* The server applies an accepted PATCH request req to message i.
ApplyPatch(i, req) ==
  LET msg == PatchMessage(srvMsgs[i], req.body)
  IN /\ srvMsgs' = [srvMsgs EXCEPT ![i] = msg]
     /\ Broadcast(IF req.cmd.kind = "react"
                    THEN ReactionEv(msg, req.cmd.user)
                    ELSE VoteEv(msg, req.cmd.user))
     /\ NoteMutation
     /\ NoteCommand(req.cmd)

\* React or Vote by the other member (their own ChatPage sends the same
\* bodies); the response goes to them.
OtherPatch(req) ==
  /\ cmds < MaxCmds
  /\ PatchAccepted(srvConv, req.body)
  /\ \E i \in 1..Len(srvMsgs) :
       /\ srvMsgs[i].id = req.body.id
       /\ ApplyPatch(i, req)
  /\ cmds' = cmds + 1
  /\ UNCHANGED <<chatVars, menuVars, wsState, reconnectCount, reconnectTimer,
                 httpVars, srvConv, lockEvents, analysisTriggers, delivered,
                 drops, ownIssued, applyVars, joinVars, analysisVars,
                 extraVars, manageVars, welcomeVars>>

\* SetLock: a change is broadcast as LockChanged, and locking triggers the
\* analysis generation.
SetLock(actor, locked) ==
  IF SetLockChanges(srvConv, actor, locked)
    THEN /\ srvConv' = [srvConv EXCEPT !.is_locked = locked]
         /\ lockEvents' = lockEvents + 1
         /\ analysisTriggers' =
              IF locked THEN analysisTriggers + 1 ELSE analysisTriggers
         /\ Broadcast(LockEv(locked, actor))
         /\ NoteMutation
    ELSE UNCHANGED <<srvConv, lockEvents, analysisTriggers, wsQueue,
                     cleanStart>>

\* SetVisibility: a change is broadcast as VisibilityChanged.
SetVisibility(actor, visible) ==
  IF SetVisibilityChanges(srvConv, actor, visible)
    THEN /\ srvConv' = [srvConv EXCEPT !.is_visible = visible]
         /\ Broadcast(VisibilityEv(visible, actor))
         /\ NoteMutation
         /\ UNCHANGED <<lockEvents, analysisTriggers>>
    ELSE UNCHANGED <<srvConv, lockEvents, analysisTriggers, wsQueue,
                     cleanStart>>

\* SetLock by the owner.
OwnerSetLock(locked) ==
  /\ cmds < MaxCmds
  /\ cmds' = cmds + 1
  /\ SetLock(Owner, locked)
  /\ UNCHANGED <<chatVars, menuVars, wsState, reconnectCount, reconnectTimer,
                 httpVars, srvMsgs, delivered, drops, ownIssued, cmdHist,
                 applyVars, joinVars, analysisVars, extraVars, manageVars,
                 welcomeVars>>

\* SetVisibility by the owner.
OwnerSetVisibility(visible) ==
  /\ cmds < MaxCmds
  /\ cmds' = cmds + 1
  /\ SetVisibility(Owner, visible)
  /\ UNCHANGED <<chatVars, menuVars, wsState, reconnectCount, reconnectTimer,
                 httpVars, srvMsgs, delivered, drops, ownIssued, cmdHist,
                 applyVars, joinVars, analysisVars, extraVars, manageVars,
                 welcomeVars>>

\* The server answers GET messages with its current sequence.
FetchServe ==
  /\ fetchPc = "requested"
  /\ fetchPc' = "responded"
  /\ fetchData' = srvMsgs
  /\ UNCHANGED <<chatVars, menuVars, wsVars, patchReqs, patchResps, srvVars,
                 histVars, applyVars, joinVars, analysisVars, extraVars,
                 manageVars, welcomeVars>>

\* fetchMessages: setMessages(response.data)
FetchInstall ==
  /\ fetchPc = "responded"
  /\ fetchPc' = "done"
  /\ messages' = fetchData
  /\ KeepMenu(conversation, fetchData)
  /\ UNCHANGED <<conversation, shouldShowAnalysisButton, showAnalysisModal,
                 wsVars, fetchData, patchReqs, patchResps, srvVars, histVars,
                 applyVars, joinVars, analysisVars, extraVars, manageVars,
                 welcomeVars>>

\* fetchMessages: the request fails, the catch block only reports it.
FetchFail ==
  /\ fetchPc = "requested"
  /\ fetchPc' = "failed"
  /\ UNCHANGED <<chatVars, menuVars, wsVars, fetchData, patchReqs, patchResps,
                 srvVars, histVars, applyVars, joinVars, analysisVars,
                 extraVars, manageVars, welcomeVars>>

\* ws.onopen
WsOpen ==
  /\ wsState = "connecting"
  /\ wsState' = "open"
  /\ reconnectCount' = 0
  /\ UNCHANGED <<chatVars, menuVars, wsQueue, reconnectTimer, httpVars,
                 srvVars, histVars, applyVars, joinVars, analysisVars,
                 extraVars, manageVars, welcomeVars>>

\* ws.onclose with a code other than 1000: events in flight are lost, a
\* reconnect is scheduled while attempts remain.
WsDrop ==
  /\ wsState \in {"connecting", "open"}
  /\ drops < MaxDrops
  /\ drops' = drops + 1
  /\ wsState' = "closed"
  /\ wsQueue' = <<>>
  /\ IF reconnectCount < reconnectAttempts
       THEN /\ reconnectCount' = reconnectCount + 1
            /\ reconnectTimer' = TRUE
       ELSE UNCHANGED <<reconnectCount, reconnectTimer>>
  /\ UNCHANGED <<chatVars, menuVars, httpVars, srvVars, delivered, cleanStart,
                 cmds, ownIssued, cmdHist, applyVars, joinVars, analysisVars,
                 extraVars, manageVars, welcomeVars>>

\* The reconnect timer fires: connect().  onConnect does nothing.
WsReconnect ==
  /\ reconnectTimer
  /\ reconnectTimer' = FALSE
  /\ wsState' = "connecting"
  /\ UNCHANGED <<chatVars, menuVars, wsQueue, reconnectCount, httpVars,
                 srvVars, histVars, applyVars, joinVars, analysisVars,
                 extraVars, manageVars, welcomeVars>>

\* ws.onmessage: the next event reaches onMessage.
WsDeliver ==
  /\ wsState = "open"
  /\ wsQueue # <<>>
  /\ LET e == Head(wsQueue)
         st == onMessage(Client, e)
     IN /\ SetClient(st)
        /\ KeepMenu(st.conversation, st.messages)
        /\ delivered' = IF e.type = "chat_message"
                          THEN delivered \cup {e.message.id}
                          ELSE delivered
  /\ wsQueue' = Tail(wsQueue)
  /\ UNCHANGED <<wsState, reconnectCount, reconnectTimer, httpVars, srvVars,
                 drops, cleanStart, cmds, ownIssued, cmdHist, applyVars,
                 joinVars, analysisVars, extraVars, manageVars, welcomeVars>>

\* The messages are rendered once fetchMessages has finished (isLoading).
MessagesShown == fetchPc \in {"done", "failed"}

CanIssue ==
  /\ MessagesShown
  /\ cmds < MaxCmds
  /\ Len(patchReqs) + Len(patchResps) < MaxInflight

\* handleReaction(messageId, emoji): a click on a reaction button.
handleReaction(id, emoji) ==
  /\ CanIssue
  /\ SomeId(messages, id)
  /\ ReactionAllowed(conversation)
  /\ patchReqs' = Append(patchReqs, ReactRequest(Me, id, emoji))
  /\ cmds' = cmds + 1
  /\ ownIssued' = TRUE
  /\ UNCHANGED <<chatVars, menuVars, wsVars, fetchPc, fetchData, patchResps,
                 srvVars, delivered, drops, cleanStart, cmdHist, applyVars,
                 joinVars, analysisVars, extraVars, manageVars, welcomeVars>>

\* The Vote button of a message, shown while the conversation is locked.
ToggleVoteMenu(id) ==
  /\ MessagesShown
  /\ SomeId(messages, id)
  /\ conversation.is_locked
  /\ showVoteMenu' = IF showVoteMenu = id THEN NoId ELSE id
  /\ isVoting' = FALSE
  /\ UNCHANGED <<chatVars, wsVars, httpVars, srvVars, histVars, applyVars,
                 joinVars, analysisVars, extraVars, manageVars, welcomeVars>>

\* VoteMenu.handleVote -> ChatPage.handleVote(message.id, votedForUserId)
handleVote(votee) ==
  /\ CanIssue
  /\ MenuMounted(showVoteMenu, conversation, messages)
  /\ ~isVoting
  /\ isVoting' = TRUE
  /\ patchReqs' = Append(patchReqs, VoteRequest(Me, showVoteMenu, votee))
  /\ cmds' = cmds + 1
  /\ ownIssued' = TRUE
  /\ UNCHANGED <<chatVars, showVoteMenu, wsVars, fetchPc, fetchData,
                 patchResps, srvVars, delivered, drops, cleanStart, cmdHist,
                 applyVars, joinVars, analysisVars, extraVars, manageVars,
                 welcomeVars>>

\* The server handles one PATCH request of the observed client.
ServerPatch(n) ==
  /\ n \in 1..Len(patchReqs)
  /\ LET req == patchReqs[n]
     IN IF PatchAccepted(srvConv, req.body)
          THEN \E i \in 1..Len(srvMsgs) :
                 /\ srvMsgs[i].id = req.body.id
                 /\ ApplyPatch(i, req)
                 /\ patchResps' =
                      Append(patchResps,
                             [ok |-> TRUE, cmd |-> req.cmd,
                              data |-> PatchMessage(srvMsgs[i], req.body)])
          ELSE /\ patchResps' =
                    Append(patchResps,
                           [ok |-> FALSE, cmd |-> req.cmd, data |-> NoMsg])
               /\ UNCHANGED <<srvMsgs, wsQueue, cleanStart, cmdHist>>
  /\ patchReqs' = RemoveAt(patchReqs, n)
  /\ UNCHANGED <<chatVars, menuVars, wsState, reconnectCount, reconnectTimer,
                 fetchPc, fetchData, srvConv, lockEvents, analysisTriggers,
                 delivered, drops, cmds, ownIssued, applyVars, joinVars,
                 analysisVars, extraVars, manageVars, welcomeVars>>

\* handleReaction / handleVote continue with the response: a successful one
\* replaces the message by response.data, a failed one is only reported.
PatchContinue(n) ==
  /\ n \in 1..Len(patchResps)
  /\ LET resp == patchResps[n]
         msgs == IF resp.ok
                   THEN MapReplace(messages, resp.cmd.id, resp.data)
                   ELSE messages
     IN /\ messages' = msgs
        /\ showVoteMenu' = showVoteMenu
        /\ isVoting' = IF resp.cmd.kind = "vote" THEN FALSE
                       ELSE (isVoting /\
                             MenuMounted(showVoteMenu, conversation, msgs))
  /\ patchResps' = RemoveAt(patchResps, n)
  /\ UNCHANGED <<conversation, shouldShowAnalysisButton, showAnalysisModal,
                 wsVars, fetchPc, fetchData, patchReqs, srvVars, histVars,
                 applyVars, joinVars, analysisVars, extraVars, welcomeVars>>

PatchResponse(n) ==
  /\ PatchContinue(n)
  /\ UNCHANGED manageVars

Next ==
  \/ \E c \in Contents : OtherPost(c)
  \/ \E id \in 1..MaxMsgs, e \in Emojis : OtherPatch(ReactRequest(Owner, id, e))
  \/ \E id \in 1..MaxMsgs, v \in Users : OtherPatch(VoteRequest(Owner, id, v))
  \/ \E b \in BOOLEAN : OwnerSetLock(b)
  \/ \E b \in BOOLEAN : OwnerSetVisibility(b)
  \/ FetchServe
  \/ FetchInstall
  \/ FetchFail
  \/ WsOpen
  \/ WsDrop
  \/ WsReconnect
  \/ WsDeliver
  \/ \E id \in 1..MaxMsgs, e \in Emojis : handleReaction(id, e)
  \/ \E id \in 1..MaxMsgs : ToggleVoteMenu(id)
  \/ \E v \in Users : handleVote(v)
  \/ \E n \in 1..MaxInflight : ServerPatch(n)
  \/ \E n \in 1..MaxInflight : PatchResponse(n)

Spec == Init /\ [][Next]_vars

\* ---------------------------------------------- command model (SpecCmd)
\* The ChatPage after its mount has settled: the fetched list is installed
\* and the socket is open.  Messages were posted before; from here on the
\* members react and vote and the owner locks and unlocks.
RECURSIVE PostedMsgs(_)
PostedMsgs(n) ==
  IF n = 0 THEN <<>>
  ELSE Append(PostedMsgs(n - 1), Msg(n, "txt", Owner, <<>>, EmptyVotes))

InitCmd ==
  /\ srvMsgs = PostedMsgs(MaxMsgs)
  /\ srvConv = Conv("n1", FALSE, FALSE)
  /\ lockEvents = 0
  /\ analysisTriggers = 0
  /\ messages = srvMsgs
  /\ conversation = srvConv
  /\ shouldShowAnalysisButton = FALSE
  /\ showAnalysisModal = FALSE
  /\ MenuIdle
  /\ wsState = "open"
  /\ wsQueue = <<>>
  /\ reconnectCount = 0
  /\ reconnectTimer = FALSE
  /\ fetchPc = "done"
  /\ fetchData = srvMsgs
  /\ patchReqs = <<>>
  /\ patchResps = <<>>
  /\ HistoryIdle
  /\ ApplyIdle
  /\ WelcomeIdle
  /\ JoinIdle
  /\ AnalysisIdle
  /\ ExtraIdle
  /\ ManageIdle

NextCmd ==
  \/ \E id \in 1..MaxMsgs, e \in Emojis : OtherPatch(ReactRequest(Owner, id, e))
  \/ \E id \in 1..MaxMsgs, v \in Users : OtherPatch(VoteRequest(Owner, id, v))
  \/ \E b \in BOOLEAN : OwnerSetLock(b)
  \/ WsDeliver
  \/ \E id \in 1..MaxMsgs, e \in Emojis : handleReaction(id, e)
  \/ \E id \in 1..MaxMsgs : ToggleVoteMenu(id)
  \/ \E v \in Users : handleVote(v)
  \/ \E n \in 1..MaxInflight : ServerPatch(n)
  \/ \E n \in 1..MaxInflight : PatchResponse(n)

SpecCmd == InitCmd /\ [][NextCmd]_vars

\* --------------------------------------------------- lock model (SpecLock)
\* The owner on the WelcomeScreen toggles lock and visibility of the
\* conversation while the observed member has its ChatPage open.
\* Mutant of IsCreator: every member gets the buttons.
IsMember(usersIds, userId) ==
  \E i \in 1..Len(usersIds) : usersIds[i] = userId

\* The lock and visibility buttons are rendered for the creator only.
IsCreator(usersIds, userId) == Len(usersIds) > 0 /\ usersIds[1] = userId

\* The PATCH conversation request: the User-Id header and the body.
ConversationPatch(userId, body) == [user |-> userId, body |-> body]

\* Mutant of NewLockState: the negation is missing.
NewLockStateKept(conv) == conv.is_locked

\* handleUnlockConversation: const newLockState = !conversation.is_locked
NewLockState(conv) == ~conv.is_locked

\* handleToggleVisibility: const newVisibilityState = !conversation.is_visible
NewVisibilityState(conv) == ~conv.is_visible

ConversationUpdate(field, value) == [field |-> field, value |-> value]

InitLock ==
  /\ messages = <<>>
  /\ conversation = Conv("n1", FALSE, FALSE)
  /\ shouldShowAnalysisButton = FALSE
  /\ showAnalysisModal = FALSE
  /\ MenuIdle
  /\ wsState = "open"
  /\ wsQueue = <<>>
  /\ reconnectCount = 0
  /\ reconnectTimer = FALSE
  /\ fetchPc = "done"
  /\ fetchData = <<>>
  /\ patchReqs = <<>>
  /\ patchResps = <<>>
  /\ ServerIdle
  /\ HistoryIdle
  /\ ApplyIdle
  /\ WelcomeIdle
  /\ JoinIdle
  /\ AnalysisIdle
  /\ ExtraIdle
  /\ ManageIdle

\* The conversation list with its buttons is rendered unless isLoading.
CanClick(u) ==
  /\ IsCreator(UsersIds, u)
  /\ ~isLoading
  /\ clicks < MaxClicks

\* handleUnlockConversation(conversation) up to the await of the PATCH.
handleUnlockConversation(u) ==
  /\ CanClick(u)
  /\ clicks' = clicks + 1
  /\ convReqs' =
       Append(convReqs,
              ConversationPatch(u, ConversationUpdate(
                                     "is_locked",
                                     NewLockState(conversations))))
  /\ lockSent' = lockSent \cup {NewLockState(conversations)}
  /\ UNCHANGED <<chatVars, menuVars, wsVars, httpVars, srvVars, histVars,
                 applyVars, joinVars, analysisVars, extraVars, manageVars,
                 conversations, isLoading, convResps, listReqs, listResps,
                 refetched, noops, forbidden>>

\* handleToggleVisibility(conversation) up to the await of the PATCH.
handleToggleVisibility(u) ==
  /\ CanClick(u)
  /\ clicks' = clicks + 1
  /\ convReqs' =
       Append(convReqs,
              ConversationPatch(u, ConversationUpdate(
                                     "is_visible",
                                     NewVisibilityState(conversations))))
  /\ UNCHANGED <<chatVars, menuVars, wsVars, httpVars, srvVars, histVars,
                 applyVars, joinVars, analysisVars, extraVars, manageVars,
                 conversations, isLoading, convResps, listReqs, listResps,
                 lockSent, refetched, noops, forbidden>>

\* The server handles one PATCH conversation request of the owner.
ServerPatchConversation(n) ==
  /\ n \in 1..Len(convReqs)
  /\ LET req == convReqs[n]
     IN /\ IF req.body.field = "is_locked"
             THEN /\ SetLock(req.user, req.body.value)
                  /\ noops' =
                       IF req.user = Owner /\ srvConv.is_locked = req.body.value
                         THEN noops + 1 ELSE noops
             ELSE /\ SetVisibility(req.user, req.body.value)
                  /\ noops' = noops
        /\ forbidden' = IF req.user = Owner THEN forbidden
                         ELSE forbidden + 1
  /\ convReqs' = RemoveAt(convReqs, n)
  /\ convResps' = convResps + 1
  /\ UNCHANGED <<chatVars, menuVars, wsState, reconnectCount, reconnectTimer,
                 httpVars, srvMsgs, delivered, drops, cmds, ownIssued,
                 cmdHist, applyVars, joinVars, analysisVars, extraVars,
                 manageVars, conversations, isLoading, listReqs, listResps,
                 clicks, lockSent, refetched>>

\* The handler continues after the await: toast, then fetchConversations()
\* up to its await (setIsLoading(true), GET conversations).
PatchConversationResponse ==
  /\ convResps > 0
  /\ convResps' = convResps - 1
  /\ isLoading' = TRUE
  /\ listReqs' = listReqs + 1
  /\ UNCHANGED <<chatVars, menuVars, wsVars, httpVars, srvVars, histVars,
                 applyVars, joinVars, analysisVars, extraVars, manageVars,
                 conversations, convReqs, listResps, clicks, lockSent,
                 refetched, noops, forbidden>>

\* The server answers GET conversations with the current flags.
ListServe ==
  /\ listReqs > 0
  /\ listReqs' = listReqs - 1
  /\ listResps' = Append(listResps, srvConv)
  /\ UNCHANGED <<chatVars, menuVars, wsVars, httpVars, srvVars, histVars,
                 applyVars, joinVars, analysisVars, extraVars, manageVars,
                 conversations, isLoading, convReqs, convResps, clicks,
                 lockSent, refetched, noops, forbidden>>

\* fetchConversations continues: setConversations(response.data), and in
\* finally setIsLoading(false).
ListInstall(n) ==
  /\ n \in 1..Len(listResps)
  /\ conversations' = listResps[n]
  /\ isLoading' = FALSE
  /\ listResps' = RemoveAt(listResps, n)
  /\ lockSent' = {}
  /\ refetched' = TRUE
  /\ UNCHANGED <<chatVars, menuVars, wsVars, httpVars, srvVars, histVars,
                 applyVars, joinVars, analysisVars, extraVars, manageVars,
                 convReqs, convResps, listReqs, clicks, noops, forbidden>>

\* Another member sends SetLock or SetVisibility to the server directly;
\* the WelcomeScreen gives them no button for it.
MemberSetFlag(u, field, value) ==
  /\ u # Owner
  /\ cmds < MaxCmds
  /\ cmds' = cmds + 1
  /\ IF field = "is_locked"
       THEN SetLock(u, value)
       ELSE SetVisibility(u, value)
  /\ forbidden' = forbidden + 1
  /\ UNCHANGED <<chatVars, menuVars, wsState, reconnectCount, reconnectTimer,
                 httpVars, srvMsgs, delivered, drops, ownIssued, cmdHist,
                 applyVars, joinVars, analysisVars, extraVars, manageVars,
                 conversations, isLoading, convReqs, convResps, listReqs,
                 listResps, clicks, lockSent, refetched, noops>>

NextLock ==
  \/ \E u \in Users : handleUnlockConversation(u)
  \/ \E u \in Users : handleToggleVisibility(u)
  \/ \E u \in Users, f \in {"is_locked", "is_visible"}, b \in BOOLEAN :
       MemberSetFlag(u, f, b)
  \/ \E n \in 1..MaxClicks : ServerPatchConversation(n)
  \/ PatchConversationResponse
  \/ ListServe
  \/ \E n \in 1..MaxClicks : ListInstall(n)
  \/ WsDeliver

SpecLock == InitLock /\ [][NextLock]_vars

\* ------------------------------------- UserManagementModal (SpecManage)
\* Text is a sequence of characters; " " is the white space trim removes.
MaxLen == 3
Chars == {" ", "a", "b"}
Strs(n) == UNION {[1..k -> Chars] : k \in 0..n}
\* What is typed into an input of the modal: blanks only, or a text.
Inputs == {<<" ">>, <<"b">>}

\* String.prototype.trim
RECURSIVE TrimStart(_)
TrimStart(s) ==
  IF s # <<>> /\ Head(s) = " " THEN TrimStart(Tail(s)) ELSE s
RECURSIVE TrimEnd(_)
TrimEnd(s) ==
  IF s # <<>> /\ s[Len(s)] = " "
    THEN TrimEnd(SubSeq(s, 1, Len(s) - 1))
    ELSE s
Trim(s) == TrimEnd(TrimStart(s))

\* Mutant of RenameName: the input is taken as typed.
RenameNameRaw(input, name) ==
  IF input # NoText THEN input ELSE name

\* conversationNameInput.trim() || conversation.name
RenameName(input, name) ==
  IF Trim(input) # NoText THEN Trim(input) ELSE name

\* updateData: x.trim() || undefined puts the field into the body only when
\* the trimmed input is not empty.
UpdateData(field, input) ==
  [f \in (IF Trim(input) # NoText THEN {field} ELSE {}) |-> Trim(input)]

\* setUsers(users.map(...)) after a successful update: the trimmed input.
LocalUserUpdate(us, userId, field, input) ==
  [us EXCEPT ![userId][field] = Trim(input)]

InputOf(field) ==
  IF field = "pseudo" THEN pseudoInput
  ELSE IF field = "smiley" THEN smileyInput
  ELSE conversationNameInput

\* A save request with what the continuation of handleSaveField keeps from
\* the render it was started in.  The rename request carries no User-Id
\* header; user is the signed-in user the backend attributes it to.
RenameRequest(user, input, conv) ==
  [kind |-> "rename", user |-> user, target |-> "conversation",
   body |-> [name |-> RenameName(input, conv.name)],
   field |-> "conversation_name", input |-> input, conv |-> conv,
   users |-> users]

MemberRequest(user, target, field, input, us) ==
  [kind |-> "member", user |-> user, target |-> target,
   body |-> UpdateData(field, input),
   field |-> field, input |-> input, conv |-> conversation, users |-> us]

\* RenameConversation, UpdateMembershipData of the backend.
RenameAccepted(actor) == actor = Owner

RenameConversation(conv, newName) ==
  [conv EXCEPT !.name = RenameName(newName, conv.name)]

MembershipAccepted(actor, target) == actor = target /\ target \in Users

UpdateMembershipData(data, target, body) ==
  [data EXCEPT ![target] =
     [f \in {"pseudo", "smiley"} |->
        IF f \in DOMAIN body THEN body[f] ELSE data[target][f]]]

\* MembershipDataChanged carries both fields of the target user.
UserDataEv(userId, data, by) ==
  Event("user_data_changed", NoId,
        [user_id |-> userId, pseudo |-> data.pseudo, smiley |-> data.smiley],
        "", FALSE, FALSE, by)

\* ChatPage hands user_data_changed to the modal's listener.
handleUserDataChanged(us, e) ==
  IF e.type = "user_data_changed"
    THEN [us EXCEPT ![e.message.user_id] =
            MemberData(e.message.pseudo, e.message.smiley)]
    ELSE us

\* Mutant of AfterMemberSave: the local copy is updated whatever the answer.
AfterMemberSaveAlways(req, ok) ==
  LocalUserUpdate(req.users, req.target, req.field, req.input)

\* users after the update request has been answered: the catch block of
\* handleSaveField leaves them alone.
AfterMemberSave(req, ok) ==
  IF ok
    THEN LocalUserUpdate(req.users, req.target, req.field, req.input)
    ELSE users

\* conversation after the rename request has been answered.
AfterRename(req, ok) ==
  IF ok
    THEN [req.conv EXCEPT !.name = RenameName(req.input, req.conv.name)]
    ELSE conversation

InitManage ==
  /\ messages = <<>>
  /\ srvConv = Conv(<<"a">>, FALSE, FALSE)
  /\ srvMsgs = <<>>
  /\ lockEvents = 0
  /\ analysisTriggers = 0
  /\ conversation = srvConv
  /\ shouldShowAnalysisButton = FALSE
  /\ showAnalysisModal = FALSE
  /\ MenuIdle
  /\ wsState = "open"
  /\ wsQueue = <<>>
  /\ reconnectCount = 0
  /\ reconnectTimer = FALSE
  /\ fetchPc = "done"
  /\ fetchData = <<>>
  /\ patchReqs = <<>>
  /\ patchResps = <<>>
  /\ HistoryIdle
  /\ ApplyIdle
  /\ WelcomeIdle
  /\ JoinIdle
  /\ AnalysisIdle
  /\ ExtraIdle
  /\ currentUser \in Users
  /\ srvUsers = [u \in Users |-> MemberData(<<"a">>, NoText)]
  /\ users = srvUsers
  /\ editingUserId = NoUser
  /\ editingField = NoField
  /\ pseudoInput = NoText
  /\ smileyInput = NoText
  /\ conversationNameInput = NoText
  /\ saveReqs = <<>>
  /\ saveResps = <<>>
  /\ failed = {}

\* The name in the title and the pseudo and smiley of each listed user are
\* buttons that start an edit with the value shown.
handleEditField(userId, field) ==
  /\ \/ userId = "conversation" /\ field = "conversation_name"
     \/ userId \in Users /\ field \in {"pseudo", "smiley"}
  /\ editingField = NoField
  /\ editingUserId' = userId
  /\ editingField' = field
  /\ pseudoInput' =
       IF field = "pseudo" THEN users[userId].pseudo ELSE pseudoInput
  /\ smileyInput' =
       IF field = "smiley" THEN users[userId].smiley ELSE smileyInput
  /\ conversationNameInput' =
       IF field = "conversation_name" THEN conversation.name
       ELSE conversationNameInput
  /\ UNCHANGED <<chatVars, menuVars, wsVars, httpVars, srvVars, histVars,
                 applyVars, joinVars, analysisVars, extraVars, welcomeVars,
                 currentUser, users, saveReqs, saveResps, srvUsers, failed>>

\* onChange of the input of the field under edit.
SetInput(s) ==
  /\ editingField # NoField
  /\ InputOf(editingField) # s
  /\ pseudoInput' = IF editingField = "pseudo" THEN s ELSE pseudoInput
  /\ smileyInput' = IF editingField = "smiley" THEN s ELSE smileyInput
  /\ conversationNameInput' =
       IF editingField = "conversation_name" THEN s
       ELSE conversationNameInput
  /\ UNCHANGED <<chatVars, menuVars, wsVars, httpVars, srvVars, histVars,
                 applyVars, joinVars, analysisVars, extraVars, welcomeVars,
                 currentUser, users, editingUserId, editingField, saveReqs,
                 saveResps, srvUsers, failed>>

handleCancelEdit ==
  /\ editingField # NoField
  /\ editingUserId' = NoUser
  /\ editingField' = NoField
  /\ pseudoInput' = NoText
  /\ smileyInput' = NoText
  /\ UNCHANGED <<chatVars, menuVars, wsVars, httpVars, srvVars, histVars,
                 applyVars, joinVars, analysisVars, extraVars, welcomeVars,
                 currentUser, users, conversationNameInput, saveReqs,
                 saveResps, srvUsers, failed>>

\* handleSaveField(userId) up to its await: the Save button (or Enter) of the
\* field under edit.
handleSaveField ==
  /\ editingField # NoField
  /\ cmds < MaxCmds
  /\ Len(saveReqs) + Len(saveResps) < MaxInflight
  /\ cmds' = cmds + 1
  /\ saveReqs' =
       Append(saveReqs,
              IF editingField = "conversation_name"
                THEN RenameRequest(currentUser, conversationNameInput,
                                   conversation)
                ELSE MemberRequest(currentUser, editingUserId, editingField,
                                   InputOf(editingField), users))
  /\ UNCHANGED <<chatVars, menuVars, wsVars, httpVars, srvVars, delivered,
                 drops, cleanStart, ownIssued, cmdHist, applyVars, joinVars,
                 analysisVars, extraVars, welcomeVars, currentUser, users,
                 editVars, saveResps, srvUsers, failed>>

\* The backend handles one save request of the modal.
ServerSave(n) ==
  /\ n \in 1..Len(saveReqs)
  /\ LET req == saveReqs[n]
         ok == IF req.kind = "rename"
                 THEN RenameAccepted(req.user)
                 ELSE MembershipAccepted(req.user, req.target)
         data == UpdateMembershipData(srvUsers, req.target, req.body)
     IN /\ saveResps' = Append(saveResps, [ok |-> ok, req |-> req])
        /\ IF ~ok
             THEN UNCHANGED <<srvConv, srvUsers, wsQueue>>
           ELSE IF req.kind = "rename"
             THEN /\ srvConv' = RenameConversation(srvConv, req.body.name)
                  /\ Broadcast(NameEv(srvConv'.name, req.user))
                  /\ srvUsers' = srvUsers
             ELSE /\ srvUsers' = data
                  /\ Broadcast(UserDataEv(req.target, data[req.target],
                                          req.user))
                  /\ srvConv' = srvConv
  /\ saveReqs' = RemoveAt(saveReqs, n)
  /\ UNCHANGED <<chatVars, menuVars, wsState, reconnectCount, reconnectTimer,
                 httpVars, srvMsgs, lockEvents, analysisTriggers, histVars,
                 applyVars, joinVars, analysisVars, extraVars, welcomeVars,
                 currentUser, users, editVars, failed>>

\* handleSaveField after its await: the request resolved, or it threw and the
\* catch block reports the failure.
SaveResponse(n) ==
  /\ n \in 1..Len(saveResps)
  /\ LET resp == saveResps[n]
         conv == AfterRename(resp.req, resp.ok)
     IN /\ saveResps' = RemoveAt(saveResps, n)
        /\ failed' = IF resp.ok THEN failed ELSE failed \cup {resp.req.kind}
        /\ IF resp.req.kind = "rename"
             THEN /\ conversation' = conv
                  /\ shouldShowAnalysisButton' =
                       IF conv.is_locked # conversation.is_locked
                         THEN conv.is_locked
                         ELSE shouldShowAnalysisButton
                  /\ KeepMenu(conv, messages)
                  /\ users' = users
                  /\ conversationNameInput' = conversationNameInput
             ELSE /\ users' = AfterMemberSave(resp.req, resp.ok)
                  /\ conversationNameInput' = conversationNameInput
                  /\ UNCHANGED <<conversation, shouldShowAnalysisButton,
                                 menuVars>>
        /\ IF resp.ok
             THEN /\ editingUserId' = NoUser
                  /\ editingField' = NoField
                  /\ pseudoInput' = NoText
                  /\ smileyInput' = NoText
             ELSE UNCHANGED <<editingUserId, editingField, pseudoInput,
                              smileyInput>>
  /\ UNCHANGED <<messages, showAnalysisModal, wsVars, httpVars, srvVars,
                 histVars, applyVars, joinVars, analysisVars, extraVars,
                 welcomeVars, currentUser, saveReqs, srvUsers>>

\* Another member saves a pseudo or smiley of its own.
OtherUpdate(u, field, input) ==
  /\ u # currentUser
  /\ cmds < MaxCmds
  /\ cmds' = cmds + 1
  /\ LET data == UpdateMembershipData(srvUsers, u, UpdateData(field, input))
     IN /\ srvUsers' = data
        /\ Broadcast(UserDataEv(u, data[u], u))
  /\ UNCHANGED <<chatVars, menuVars, wsState, reconnectCount, reconnectTimer,
                 httpVars, srvVars, delivered, drops, cleanStart, ownIssued,
                 cmdHist, applyVars, joinVars, analysisVars, extraVars,
                 welcomeVars, currentUser, users, editVars, saveReqs,
                 saveResps, failed>>

\* Another member sends a rename.
OtherRename(u, input) ==
  /\ u # currentUser
  /\ cmds < MaxCmds
  /\ cmds' = cmds + 1
  /\ IF RenameAccepted(u)
       THEN /\ srvConv' = RenameConversation(srvConv, input)
            /\ Broadcast(NameEv(srvConv'.name, u))
       ELSE UNCHANGED <<srvConv, wsQueue>>
  /\ UNCHANGED <<chatVars, menuVars, wsState, reconnectCount, reconnectTimer,
                 httpVars, srvMsgs, lockEvents, analysisTriggers, delivered,
                 drops, cleanStart, ownIssued, cmdHist, applyVars, joinVars,
                 analysisVars, extraVars, welcomeVars, currentUser, users,
                 editVars, saveReqs, saveResps, srvUsers, failed>>

\* ws.onmessage with the modal open: onMessage, and the modal's listener for
\* user_data_changed.
ManageDeliver ==
  /\ wsState = "open"
  /\ wsQueue # <<>>
  /\ LET e == Head(wsQueue)
         st == onMessage(Client, e)
     IN /\ SetClient(st)
        /\ KeepMenu(st.conversation, st.messages)
        /\ users' = handleUserDataChanged(users, e)
  /\ wsQueue' = Tail(wsQueue)
  /\ UNCHANGED <<wsState, reconnectCount, reconnectTimer, httpVars, srvVars,
                 histVars, applyVars, joinVars, analysisVars, extraVars,
                 welcomeVars, currentUser, editVars, saveReqs, saveResps,
                 srvUsers, failed>>

NextManage ==
  \/ \E u \in Users \cup {"conversation"},
        f \in {"pseudo", "smiley", "conversation_name"} :
       handleEditField(u, f)
  \/ \E s \in Inputs : SetInput(s)
  \/ handleCancelEdit
  \/ handleSaveField
  \/ \E n \in 1..MaxInflight : ServerSave(n)
  \/ \E n \in 1..MaxInflight : SaveResponse(n)
  \/ \E u \in Users, f \in {"pseudo", "smiley"}, s \in Inputs :
       OtherUpdate(u, f, s)
  \/ \E u \in Users, s \in Inputs : OtherRename(u, s)
  \/ ManageDeliver

SpecManage == InitManage /\ [][NextManage]_vars

\* ------------------------------------------- rename inputs (SpecRename)
\* The owner has the name under edit: every input string is saved over every
\* previous name.  A stored name is the result of an earlier trim.
StoredNames == {s \in Strs(MaxLen) : Trim(s) = s}

InitRename ==
  /\ messages = <<>>
  /\ \E name \in StoredNames : srvConv = Conv(name, FALSE, FALSE)
  /\ srvMsgs = <<>>
  /\ lockEvents = 0
  /\ analysisTriggers = 0
  /\ conversation = srvConv
  /\ shouldShowAnalysisButton = FALSE
  /\ showAnalysisModal = FALSE
  /\ MenuIdle
  /\ wsState = "open"
  /\ wsQueue = <<>>
  /\ reconnectCount = 0
  /\ reconnectTimer = FALSE
  /\ fetchPc = "done"
  /\ fetchData = <<>>
  /\ patchReqs = <<>>
  /\ patchResps = <<>>
  /\ HistoryIdle
  /\ ApplyIdle
  /\ WelcomeIdle
  /\ JoinIdle
  /\ AnalysisIdle
  /\ ExtraIdle
  /\ currentUser = Owner
  /\ srvUsers = [u \in Users |-> MemberData(NoText, NoText)]
  /\ users = srvUsers
  /\ editingUserId = "conversation"
  /\ editingField = "conversation_name"
  /\ pseudoInput = NoText
  /\ smileyInput = NoText
  /\ conversationNameInput \in Strs(MaxLen)
  /\ saveReqs = <<>>
  /\ saveResps = <<>>
  /\ failed = {}

NextRename ==
  \/ handleSaveField
  \/ \E n \in 1..MaxInflight : ServerSave(n)
  \/ \E n \in 1..MaxInflight : SaveResponse(n)
  \/ ManageDeliver

SpecRename == InitRename /\ [][NextRename]_vars

\* ------------------------------------------- failing requests (SpecFail)
\* The member A has the ChatPage and the modal open while the owner locks and
\* unlocks: a reaction or vote sent before the lock event arrived is refused,
\* and so are A's rename and A's update of another member's data.
InitFail ==
  /\ srvMsgs = PostedMsgs(MaxMsgs)
  /\ srvConv = Conv(<<"a">>, FALSE, FALSE)
  /\ lockEvents = 0
  /\ analysisTriggers = 0
  /\ messages = srvMsgs
  /\ conversation = srvConv
  /\ shouldShowAnalysisButton = FALSE
  /\ showAnalysisModal = FALSE
  /\ MenuIdle
  /\ wsState = "open"
  /\ wsQueue = <<>>
  /\ reconnectCount = 0
  /\ reconnectTimer = FALSE
  /\ fetchPc = "done"
  /\ fetchData = srvMsgs
  /\ patchReqs = <<>>
  /\ patchResps = <<>>
  /\ HistoryIdle
  /\ ApplyIdle
  /\ WelcomeIdle
  /\ JoinIdle
  /\ AnalysisIdle
  /\ ExtraIdle
  /\ currentUser = Me
  /\ srvUsers = [u \in Users |-> MemberData(<<"a">>, NoText)]
  /\ users = srvUsers
  /\ editingUserId = NoUser
  /\ editingField = NoField
  /\ pseudoInput = NoText
  /\ smileyInput = NoText
  /\ conversationNameInput = NoText
  /\ saveReqs = <<>>
  /\ saveResps = <<>>
  /\ failed = {}

\* handleReaction / handleVote continue with the response; a failure is kept
\* in failed.
PatchResponseNoted(n) ==
  /\ PatchContinue(n)
  /\ failed' = IF patchResps[n].ok THEN failed
                ELSE failed \cup {patchResps[n].cmd.kind}
  /\ UNCHANGED <<currentUser, users, editVars, saveReqs, saveResps,
                 srvUsers>>

\* The dialog covers the chat: reactions and votes are clicked while no
\* field of the modal is under edit and no save is under way.
ModalClosed ==
  /\ editingField = NoField
  /\ saveReqs = <<>>
  /\ saveResps = <<>>

\* The modal is opened for an edit while no request of the chat is under way.
ChatQuiet ==
  /\ patchReqs = <<>>
  /\ patchResps = <<>>

NextFail ==
  \/ \E b \in BOOLEAN : OwnerSetLock(b)
  \/ ManageDeliver
  \/ \E id \in 1..MaxMsgs, e \in Emojis :
       ModalClosed /\ handleReaction(id, e)
  \/ \E id \in 1..MaxMsgs : ModalClosed /\ ToggleVoteMenu(id)
  \/ \E v \in Users : ModalClosed /\ handleVote(v)
  \/ \E n \in 1..MaxInflight : ServerPatch(n)
  \/ \E n \in 1..MaxInflight : PatchResponseNoted(n)
  \/ \E u \in Users \cup {"conversation"},
        f \in {"pseudo", "conversation_name"} :
       ChatQuiet /\ handleEditField(u, f)
  \/ \E s \in Inputs : InputOf(editingField) \notin Inputs /\ SetInput(s)
  \/ handleSaveField
  \/ \E n \in 1..MaxInflight : ServerSave(n)
  \/ \E n \in 1..MaxInflight : SaveResponse(n)

SpecFail == InitFail /\ [][NextFail]_vars

\* ------------------------------------------------- join link (SpecJoin)
\* App is loaded from a join link by the user Me, who is not yet a member;
\* other sessions (of Me as well) join on their own.
MaxJoins == 2
MaxFlows == 2

\* JoinConversation of the backend: the member list and the UserJoined
\* events after the command.
JoinConversation(members, u) ==
  IF \E i \in 1..Len(members) : members[i] = u
    THEN members
    ELSE Append(members, u)

JoinEvents(members, events, u) ==
  IF \E i \in 1..Len(members) : members[i] = u
    THEN events
    ELSE Append(events, u)

\* Mutant of JoinGuard: isJoiningConversation is not looked at.
JoinGuardUserOnly(user, joining) == user

\* handleJoinConversationFromUrl: if (!user || isJoiningConversation) return
JoinGuard(user, joining) == ~(~user \/ joining)

\* Object.keys(conversationResponse.data.users || {}).includes(user.id)
isAlreadyMember(userIds, userId) == userId \in userIds

Flow(pc, ok, members) == [pc |-> pc, ok |-> ok, members |-> members]

\* The spinner replaces the whole page.
Spinner == authLoading \/ isJoiningConversation

InitJoin ==
  /\ messages = <<>>
  /\ conversation = Conv("n1", FALSE, FALSE)
  /\ shouldShowAnalysisButton = FALSE
  /\ showAnalysisModal = FALSE
  /\ MenuIdle
  /\ TransportIdle
  /\ ServerIdle
  /\ HistoryIdle
  /\ ApplyIdle
  /\ WelcomeIdle
  /\ ManageIdle
  /\ AnalysisIdle
  /\ ExtraIdle
  /\ appUser = FALSE
  /\ authLoading = TRUE
  /\ currentConversation = FALSE
  /\ isJoiningConversation = FALSE
  /\ urlJoin = TRUE
  /\ effectPending = TRUE
  /\ flows = <<>>
  /\ srvMembers = <<Owner>>
  /\ userJoined = <<>>
  /\ joinsIssued = 0
  /\ directJoins = <<>>

JoinRest ==
  UNCHANGED <<chatVars, menuVars, wsVars, httpVars, srvVars, histVars,
              applyVars, welcomeVars, manageVars, analysisVars, extraVars>>

\* useAuth has finished loading, with or without a stored user.
AuthLoaded(u) ==
  /\ authLoading
  /\ authLoading' = FALSE
  /\ appUser' = u
  /\ effectPending' = TRUE
  /\ UNCHANGED <<currentConversation, isJoiningConversation, urlJoin, flows,
                 srvMembers, userJoined, joinsIssued, directJoins>>
  /\ JoinRest

\* handleLoginSuccess of the LoginDialog.
Login ==
  /\ ~Spinner
  /\ ~appUser
  /\ appUser' = TRUE
  /\ effectPending' = TRUE
  /\ UNCHANGED <<authLoading, currentConversation, isJoiningConversation,
                 urlJoin, flows, srvMembers, userJoined, joinsIssued,
                 directJoins>>
  /\ JoinRest

\* handleLogout of the WelcomeScreen.
handleLogout ==
  /\ ~Spinner
  /\ appUser
  /\ ~currentConversation
  /\ appUser' = FALSE
  /\ currentConversation' = FALSE
  /\ effectPending' = TRUE
  /\ UNCHANGED <<authLoading, isJoiningConversation, urlJoin, flows,
                 srvMembers, userJoined, joinsIssued, directJoins>>
  /\ JoinRest

\* useAuth hands out a new user object (its code is not part of App).
AuthRefresh ==
  /\ ~authLoading
  /\ appUser
  /\ ~effectPending
  /\ effectPending' = TRUE
  /\ UNCHANGED <<appUser, authLoading, currentConversation,
                 isJoiningConversation, urlJoin, flows, srvMembers,
                 userJoined, joinsIssued, directJoins>>
  /\ JoinRest

\* handleJoinChat of the WelcomeScreen, handleBackToHome of the ChatPage.
handleJoinChat ==
  /\ ~Spinner
  /\ appUser
  /\ ~currentConversation
  /\ currentConversation' = TRUE
  /\ effectPending' = TRUE
  /\ UNCHANGED <<appUser, authLoading, isJoiningConversation, urlJoin, flows,
                 srvMembers, userJoined, joinsIssued, directJoins>>
  /\ JoinRest

handleBackToHome ==
  /\ ~Spinner
  /\ appUser
  /\ currentConversation
  /\ currentConversation' = FALSE
  /\ effectPending' = TRUE
  /\ UNCHANGED <<appUser, authLoading, isJoiningConversation, urlJoin, flows,
                 srvMembers, userJoined, joinsIssued, directJoins>>
  /\ JoinRest

\* The routing effect runs after a render in which user, isLoading or
\* currentConversation changed, and starts handleJoinConversationFromUrl up
\* to its first await.
UrlEffect ==
  /\ effectPending
  /\ effectPending' = FALSE
  /\ IF /\ appUser /\ ~authLoading
        /\ urlJoin /\ ~currentConversation
        /\ JoinGuard(appUser, isJoiningConversation)
        /\ Len(flows) < MaxFlows
       THEN /\ isJoiningConversation' = TRUE
            /\ flows' = Append(flows, Flow("get", FALSE, {}))
       ELSE UNCHANGED <<isJoiningConversation, flows>>
  /\ UNCHANGED <<appUser, authLoading, currentConversation, urlJoin,
                 srvMembers, userJoined, joinsIssued, directJoins>>
  /\ JoinRest

\* The backend answers GET conversation, or the request fails.
ServeGet(i, ok) ==
  /\ i \in 1..Len(flows)
  /\ flows[i].pc = "get"
  /\ flows' = [flows EXCEPT ![i] =
                Flow("gotten", ok,
                     {srvMembers[k] : k \in 1..Len(srvMembers)})]
  /\ UNCHANGED <<appUser, authLoading, currentConversation,
                 isJoiningConversation, urlJoin, effectPending, srvMembers,
                 userJoined, joinsIssued, directJoins>>
  /\ JoinRest

\* The end of a flow: setCurrentConversation and the cleared address on
\* success, the cleared address in the catch block, then finally.
EndFlow(i, ok) ==
  /\ flows' = RemoveAt(flows, i)
  /\ currentConversation' = (ok \/ currentConversation)
  /\ effectPending' = (effectPending \/ (ok /\ ~currentConversation))
  /\ urlJoin' = FALSE
  /\ isJoiningConversation' = FALSE

\* handleJoinConversationFromUrl after the first await.
ContinueGet(i) ==
  /\ i \in 1..Len(flows)
  /\ flows[i].pc = "gotten"
  /\ IF ~flows[i].ok
       THEN EndFlow(i, FALSE) /\ joinsIssued' = joinsIssued
     ELSE IF isAlreadyMember(flows[i].members, Me)
       THEN EndFlow(i, TRUE) /\ joinsIssued' = joinsIssued
     ELSE /\ flows' = [flows EXCEPT ![i].pc = "join"]
          /\ joinsIssued' = joinsIssued + 1
          /\ UNCHANGED <<currentConversation, effectPending, urlJoin,
                         isJoiningConversation>>
  /\ UNCHANGED <<appUser, authLoading, srvMembers, userJoined, directJoins>>
  /\ JoinRest

\* The backend handles the join request of App, or the request fails.
ServeJoin(i, ok) ==
  /\ i \in 1..Len(flows)
  /\ flows[i].pc = "join"
  /\ flows' = [flows EXCEPT ![i].pc = "joined", ![i].ok = ok]
  /\ srvMembers' = IF ok THEN JoinConversation(srvMembers, Me)
                    ELSE srvMembers
  /\ userJoined' = IF ok THEN JoinEvents(srvMembers, userJoined, Me)
                    ELSE userJoined
  /\ UNCHANGED <<appUser, authLoading, currentConversation,
                 isJoiningConversation, urlJoin, effectPending, joinsIssued,
                 directJoins>>
  /\ JoinRest

\* handleJoinConversationFromUrl after the second await.
ContinueJoin(i) ==
  /\ i \in 1..Len(flows)
  /\ flows[i].pc = "joined"
  /\ EndFlow(i, flows[i].ok)
  /\ UNCHANGED <<appUser, authLoading, srvMembers, userJoined, joinsIssued,
                 directJoins>>
  /\ JoinRest

\* Another session sends JoinConversation for user u.
DirectJoin(u) ==
  /\ Len(directJoins) < MaxJoins
  /\ directJoins' = Append(directJoins, u)
  /\ srvMembers' = JoinConversation(srvMembers, u)
  /\ userJoined' = JoinEvents(srvMembers, userJoined, u)
  /\ UNCHANGED <<appUser, authLoading, currentConversation,
                 isJoiningConversation, urlJoin, effectPending, flows,
                 joinsIssued>>
  /\ JoinRest

NextJoin ==
  \/ \E u \in BOOLEAN : AuthLoaded(u)
  \/ Login
  \/ handleLogout
  \/ AuthRefresh
  \/ handleJoinChat
  \/ handleBackToHome
  \/ UrlEffect
  \/ \E i \in 1..MaxFlows, ok \in BOOLEAN : ServeGet(i, ok)
  \/ \E i \in 1..MaxFlows : ContinueGet(i)
  \/ \E i \in 1..MaxFlows, ok \in BOOLEAN : ServeJoin(i, ok)
  \/ \E i \in 1..MaxFlows : ContinueJoin(i)
  \/ \E u \in Users : DirectJoin(u)

SpecJoin == InitJoin /\ [][NextJoin]_vars

\* --------------------------------------------- analysis (SpecAnalysis)
\* The owner locks and unlocks; the generator finishes the analyses that the
\* locks triggered; the member opens the analysis from the ChatPage.
InitAnalysis ==
  /\ srvMsgs = <<>>
  /\ srvConv = Conv("n1", FALSE, FALSE)
  /\ lockEvents = 0
  /\ analysisTriggers = 0
  /\ messages = srvMsgs
  /\ conversation = srvConv
  /\ shouldShowAnalysisButton = FALSE
  /\ showAnalysisModal = FALSE
  /\ MenuIdle
  /\ wsState = "open"
  /\ wsQueue = <<>>
  /\ reconnectCount = 0
  /\ reconnectTimer = FALSE
  /\ fetchPc = "done"
  /\ fetchData = srvMsgs
  /\ patchReqs = <<>>
  /\ patchResps = <<>>
  /\ HistoryIdle
  /\ ApplyIdle
  /\ WelcomeIdle
  /\ ManageIdle
  /\ JoinIdle
  /\ AnalysisIdle
  /\ ExtraIdle

AnalysisRest ==
  UNCHANGED <<messages, conversation, shouldShowAnalysisButton, menuVars,
              wsVars, httpVars, srvVars, histVars, applyVars, welcomeVars,
              manageVars, joinVars, extraVars>>

\* The analysis generator finishes an analysis a lock has triggered; the
\* result is stored.
GenerateAnalysis ==
  /\ generated < analysisTriggers
  /\ generated' = generated + 1
  /\ UNCHANGED <<showAnalysisModal, analysis, analysisLoading, analysisError,
                 analysisPc, errorCause, resetTimer>>
  /\ AnalysisRest

\* The analysis banner with its View Analysis button is rendered.
AnalysisButtonShown(conv, show) == conv.is_locked \/ show

\* View Analysis: the modal opens, and its effect starts fetchAnalysis when
\* it holds no analysis.
ViewAnalysis ==
  /\ AnalysisButtonShown(conversation, shouldShowAnalysisButton)
  /\ ~showAnalysisModal
  /\ analysis \/ analysisPc = "idle"
  /\ showAnalysisModal' = TRUE
  /\ IF ~analysis
       THEN /\ analysisLoading' = TRUE
            /\ analysisError' = FALSE
            /\ errorCause' = ""
            /\ analysisPc' = "sent"
       ELSE UNCHANGED <<analysisLoading, analysisError, errorCause,
                        analysisPc>>
  /\ UNCHANGED <<analysis, resetTimer, generated>>
  /\ AnalysisRest

\* The answer to GET analyse: the stored analysis; a status that is not OK
\* while the triggered analysis has not been stored yet (the request may as
\* well stay unanswered until then); a failure of the request.
ServeAnalysis(outcome) ==
  /\ analysisPc = "sent"
  /\ \/ outcome = "ok" /\ generated > 0
     \/ outcome = "absent" /\ generated = 0
     \/ outcome = "failed"
  /\ analysisPc' = outcome
  /\ UNCHANGED <<showAnalysisModal, analysis, analysisLoading, analysisError,
                 errorCause, resetTimer, generated>>
  /\ AnalysisRest

\* getConversationAnalysis returns response.json() or throws on a status
\* that is not OK; fetchAnalysis continues.
AnalysisResponse ==
  /\ analysisPc \in {"ok", "absent", "failed"}
  /\ analysis' = (analysis \/ analysisPc = "ok")
  /\ analysisError' = (analysisError \/ analysisPc # "ok")
  /\ errorCause' = IF analysisPc = "ok" THEN errorCause ELSE analysisPc
  /\ analysisLoading' = FALSE
  /\ analysisPc' = "idle"
  /\ UNCHANGED <<showAnalysisModal, resetTimer, generated>>
  /\ AnalysisRest

\* handleClose of the modal, and its timeout 300 ms later.
handleClose ==
  /\ showAnalysisModal
  /\ showAnalysisModal' = FALSE
  /\ resetTimer' = TRUE
  /\ UNCHANGED <<analysis, analysisLoading, analysisError, analysisPc,
                 errorCause, generated>>
  /\ AnalysisRest

ResetTimeout ==
  /\ resetTimer
  /\ resetTimer' = FALSE
  /\ analysis' = FALSE
  /\ analysisError' = FALSE
  /\ errorCause' = ""
  /\ UNCHANGED <<showAnalysisModal, analysisLoading, analysisPc, generated>>
  /\ AnalysisRest

NextAnalysis ==
  \/ \E b \in BOOLEAN : OwnerSetLock(b)
  \/ GenerateAnalysis
  \/ WsDeliver
  \/ ViewAnalysis
  \/ \E o \in {"ok", "absent", "failed"} : ServeAnalysis(o)
  \/ AnalysisResponse
  \/ handleClose
  \/ ResetTimeout

SpecAnalysis == InitAnalysis /\ [][NextAnalysis]_vars

\* ------------------------------------------------ useWebSocket (SpecSocket)
\* The sockets, the reconnect counter and the reconnect timers of one
\* instance of the hook.  A socket is connecting, open, closing after close()
\* was called on it (while connecting or while open), or closed; a close
\* event carries the code the browser reports.  Sockets that ws.current does
\* not hold differ only in their readyState and are counted by it.
\*
\* WebSockets the instance constructs, calls of the returned reconnect()
MaxSockets == 6
MaxCalls == 1

\* close codes: onclose tests event.code !== 1000 only; 1006 is the code
\* the browser reports for a connection that ended without a close frame
NormalClosure == 1000
AbnormalClosure == 1006
NoError == ""
ConnectionErrorText == "WebSocket connection error"
FailedText == "Failed to reconnect after multiple attempts"

Live == {"connecting", "open"}
Unclosed == {"connecting", "open", "closingConnecting", "closingOpen"}
NoSocks == [s \in Unclosed |-> 0]

\* The sockets in state s, ws.current included
InState(s) == socks[s] + (IF wsRef = s THEN 1 ELSE 0)

\* The codes a close event of a socket in state s can carry: a socket that
\* never opened fails (1006), also when close() was called on it; an open
\* socket is closed by the peer (1000) or lost (1006); after close(1000) the
\* closing handshake completes (1000) or the connection is lost first (1006).
CloseCodes(s) ==
  CASE s = "connecting" -> {AbnormalClosure}
    [] s = "closingConnecting" -> {AbnormalClosure}
    [] s = "open" -> {NormalClosure, AbnormalClosure}
    [] s = "closingOpen" -> {NormalClosure, AbnormalClosure}

\* ws.close(1000, 'Manual disconnect') on a socket in state s
CloseCalled(s) ==
  CASE s = "connecting" -> "closingConnecting"
    [] s = "open" -> "closingOpen"
    [] OTHER -> s

\* The other sockets once ws.current lets go of its socket, after close() was
\* called on it or not
Released(closeIt) ==
  IF wsRef \in Live
    THEN LET s == IF closeIt THEN CloseCalled(wsRef) ELSE wsRef
         IN  [socks EXCEPT ![s] = @ + 1]
    ELSE socks

\* setIsConnected / setConnectionError: state of a mounted component only
SetState(connected, error) ==
  IF mount = "mounted"
    THEN isConnected' = connected /\ connectionError' = error
    ELSE UNCHANGED <<isConnected, connectionError>>

\* connect(): ws.current = new WebSocket(url), whatever ws.current held
connect ==
  /\ made < MaxSockets
  /\ made' = made + 1
  /\ socks' = Released(FALSE)
  /\ wsRef' = "connecting"

\* onclose: the condition under which a reconnection is scheduled
ShouldReconnectNoLimit(code) == code # NormalClosure

ShouldReconnect(code) ==
  code # NormalClosure /\ reconnectCount < reconnectAttempts

\* disconnect(): clears the timer the ref holds, closes the socket
\* ws.current holds
disconnectBody ==
  /\ timerRef' = "none"
  /\ socks' = Released(TRUE)
  /\ wsRef' = "null"

\* No ChatPage, WelcomeScreen, modal or App under study.
OldIdle ==
  /\ messages = <<>>
  /\ conversation = Conv("n1", FALSE, FALSE)
  /\ shouldShowAnalysisButton = FALSE
  /\ showAnalysisModal = FALSE
  /\ MenuIdle
  /\ TransportIdle
  /\ ServerIdle
  /\ HistoryIdle
  /\ ApplyIdle
  /\ WelcomeIdle
  /\ ManageIdle
  /\ JoinIdle
  /\ AnalysisIdle

InitSocket ==
  /\ OldIdle
  /\ SockIdle
  /\ HubIdle
  /\ SendIdle
  /\ PollIdle
  /\ AudioIdle

SockRest ==
  UNCHANGED <<oldVars, wsState, wsQueue, reconnectTimer, hubVars, sendVars,
              pollVars, audioVars>>

\* The effect of the first render: connect()
Mount ==
  /\ mount = "before"
  /\ mount' = "mounted"
  /\ connect
  /\ UNCHANGED <<isConnected, connectionError, timerRef, strayTimers,
                 disconnected, sinceOpen, calls, reconnectCount>>
  /\ SockRest

\* The url changes: the effect's cleanup (disconnect), then the effect
\* again (connect).
UrlChange ==
  /\ mount = "mounted"
  /\ made < MaxSockets
  /\ made' = made + 1
  /\ timerRef' = "none"
  /\ socks' = Released(TRUE)
  /\ wsRef' = "connecting"
  /\ disconnected' = FALSE
  /\ UNCHANGED <<isConnected, connectionError, strayTimers, mount, sinceOpen,
                 calls, reconnectCount>>
  /\ SockRest

\* The component unmounts: the effect's cleanup.
Unmount ==
  /\ mount = "mounted"
  /\ mount' = "unmounted"
  /\ disconnectBody
  /\ disconnected' = TRUE
  /\ UNCHANGED <<made, isConnected, connectionError, strayTimers, sinceOpen,
                 calls, reconnectCount>>
  /\ SockRest

\* The returned disconnect()
disconnect ==
  /\ mount = "mounted"
  /\ ~disconnected
  /\ disconnectBody
  /\ disconnected' = TRUE
  /\ UNCHANGED <<made, isConnected, connectionError, strayTimers, mount,
                 sinceOpen, calls, reconnectCount>>
  /\ SockRest

\* The returned reconnect, which is connect
reconnect ==
  /\ mount = "mounted"
  /\ calls < MaxCalls
  /\ calls' = calls + 1
  /\ connect
  /\ disconnected' = FALSE
  /\ UNCHANGED <<isConnected, connectionError, timerRef, strayTimers, mount,
                 sinceOpen, reconnectCount>>
  /\ SockRest

\* One socket in state s (ws.current's if ofRef) moves to state t, or goes
\* away when it has closed.
Move(ofRef, s, t) ==
  IF ofRef
    THEN /\ wsRef = s
         /\ wsRef' = t
         /\ UNCHANGED socks
    ELSE /\ socks[s] > 0
         /\ socks' = IF t = "closed" THEN [socks EXCEPT ![s] = @ - 1]
                     ELSE [socks EXCEPT ![s] = @ - 1, ![t] = @ + 1]
         /\ UNCHANGED wsRef

\* onopen of a socket
OpenEvent(ofRef) ==
  /\ Move(ofRef, "connecting", "open")
  /\ SetState(TRUE, NoError)
  /\ reconnectCount' = 0
  /\ sinceOpen' = 0
  /\ UNCHANGED <<made, timerRef, strayTimers, mount, disconnected, calls>>
  /\ SockRest

\* A socket in state s closes with the given code; an abnormal close is
\* preceded by the error event (onerror), then onclose runs.
CloseEvent(ofRef, s, code) ==
  /\ code \in CloseCodes(s)
  /\ Move(ofRef, s, "closed")
  /\ IF ShouldReconnect(code)
       THEN /\ reconnectCount' = reconnectCount + 1
            /\ sinceOpen' = sinceOpen + 1
            /\ timerRef' = "pending"
            /\ strayTimers' = IF timerRef = "pending" THEN strayTimers + 1
                                ELSE strayTimers
            /\ SetState(FALSE, IF code = NormalClosure THEN connectionError
                                ELSE ConnectionErrorText)
       ELSE /\ UNCHANGED <<reconnectCount, sinceOpen, timerRef, strayTimers>>
            /\ SetState(FALSE,
                 IF reconnectCount >= reconnectAttempts THEN FailedText
                 ELSE IF code = NormalClosure THEN connectionError
                 ELSE ConnectionErrorText)
  /\ UNCHANGED <<made, mount, disconnected, calls>>
  /\ SockRest

\* The reconnect timer the ref holds expires: connect()
TimerFire ==
  /\ timerRef = "pending"
  /\ timerRef' = "fired"
  /\ connect
  /\ UNCHANGED <<isConnected, connectionError, strayTimers, mount,
                 disconnected, sinceOpen, calls, reconnectCount>>
  /\ SockRest

\* A reconnect timer the ref no longer holds expires: connect()
StrayTimerFire ==
  /\ strayTimers > 0
  /\ strayTimers' = strayTimers - 1
  /\ connect
  /\ UNCHANGED <<isConnected, connectionError, timerRef, mount, disconnected,
                 sinceOpen, calls, reconnectCount>>
  /\ SockRest

NextSocket ==
  \/ Mount
  \/ UrlChange
  \/ Unmount
  \/ disconnect
  \/ reconnect
  \/ \E ofRef \in BOOLEAN : OpenEvent(ofRef)
  \/ \E ofRef \in BOOLEAN, s \in Unclosed,
        code \in {NormalClosure, AbnormalClosure} : CloseEvent(ofRef, s, code)
  \/ TimerFire
  \/ StrayTimerFire

SpecSocket == InitSocket /\ [][NextSocket]_vars

\* ----------------------------------------- mutators and Hub (SpecHub)
\* The backend is not part of the sources at hand: the State Mutators and the
\* Broadcast Hub follow spec.md 4.3 and 5.  Two conversations hold one
\* message each; conversation "c1" is open (React is accepted), "c2" is
\* locked (Vote is accepted).  ChatPages send the PATCH bodies of
\* handleReaction and handleVote; a mutator loads the message, applies the
\* body and stores the result, holding the conversation's critical section.
\* Every useWebSocket connection is one of one conversation.
\*
\* Commands in flight, subscriptions made
MaxTasks == 2
MaxLinks == 2

ConvIds == {"c1", "c2"}
Conns == {"k1", "k2"}
NoConv == "none"
HubConv(c) == Conv("n1", c = "c2", FALSE)
HubRequests ==
  {ReactRequest(u, 1, "thumb") : u \in Users}
    \cup {VoteRequest(u, 1, "A") : u \in Users}
Task(c, req) == [conv |-> c, req |-> req, pc |-> "waiting", snap |-> NoMsg]
\* The commands form a collection without order: they are listed by rank.
Rank(tk) ==
  (IF tk.conv = "c1" THEN 0 ELSE 4)
  + (IF tk.req.cmd.user = Me THEN 0 ELSE 2)
  + (IF tk.req.cmd.kind = "react" THEN 0 ELSE 1)

\* A mutator may enter the critical section of conversation c.
AcquirableAlways(c) == TRUE

Acquirable(c) == ~mutex[c]

\* The Hub puts event e behind the events queued for a connection.
EnqueueFirst(q, e) == <<e>> \o q

Enqueue(q, e) == Append(q, e)

\* The subscriber set without connection k, which ended voluntarily or by an
\* error.
UnsubscribeVoluntary(S, k, how) == IF how = "close" THEN S \ {k} ELSE S

Unsubscribe(S, k, how) == S \ {k}

\* The Hub queues event e of conversation c for its subscribers.
FanOut(c, e) ==
  outbox' = [k \in Conns |->
               IF k \in subs[c] THEN Enqueue(outbox[k], e) ELSE outbox[k]]

InitHub ==
  /\ OldIdle
  /\ SockIdle
  /\ SendIdle
  /\ PollIdle
  /\ AudioIdle
  /\ store = [c \in ConvIds |-> Msg(1, "txt", Owner, <<>>, EmptyVotes)]
  /\ mutex = [c \in ConvIds |-> FALSE]
  /\ tasks \in [1..MaxTasks -> {Task(c, r) : c \in ConvIds, r \in HubRequests}]
  /\ \A i, j \in 1..MaxTasks : i < j => Rank(tasks[i]) <= Rank(tasks[j])
  /\ accepted = [c \in ConvIds |-> 0]
  /\ subs = [c \in ConvIds |-> {}]
  /\ connConv = [k \in Conns |-> NoConv]
  /\ outbox = [k \in Conns |-> <<>>]
  /\ observed = [k \in Conns |-> <<>>]
  /\ subscribedAt = [k \in Conns |-> 0]
  /\ links = 0

HubRest ==
  UNCHANGED <<oldVars, wsVars, sockVars, sendVars, pollVars, audioVars>>

\* A mutator enters the critical section and loads the message.
Begin(t) ==
  /\ tasks[t].pc = "waiting"
  /\ Acquirable(tasks[t].conv)
  /\ mutex' = [mutex EXCEPT ![tasks[t].conv] = TRUE]
  /\ tasks' = [tasks EXCEPT ![t].pc = "loaded",
                            ![t].snap = store[tasks[t].conv]]
  /\ UNCHANGED <<store, accepted, subs, connConv, outbox, observed,
                 subscribedAt, links>>
  /\ HubRest

\* It stores the changed message, queues the event and leaves the critical
\* section; a command in the wrong lock state is refused.
Commit(t) ==
  /\ tasks[t].pc = "loaded"
  /\ LET c == tasks[t].conv
         body == tasks[t].req.body
     IN /\ mutex' = [mutex EXCEPT ![c] = FALSE]
        /\ IF PatchAccepted(HubConv(c), body)
             THEN /\ store' = [store EXCEPT
                                 ![c] = PatchMessage(tasks[t].snap, body)]
                  /\ accepted' = [accepted EXCEPT ![c] = @ + 1]
                  /\ FanOut(c, [conv |-> c, seq |-> accepted[c] + 1])
                  /\ tasks' = [tasks EXCEPT ![t].pc = "done"]
             ELSE /\ tasks' = [tasks EXCEPT ![t].pc = "refused"]
                  /\ UNCHANGED <<store, accepted, outbox>>
  /\ UNCHANGED <<subs, connConv, observed, subscribedAt, links>>
  /\ HubRest

\* A ChatPage of conversation c mounts: its socket opens and the Hub
\* registers the connection.
Subscribe(k, c) ==
  /\ links < MaxLinks
  /\ connConv[k] = NoConv
  /\ links' = links + 1
  /\ connConv' = [connConv EXCEPT ![k] = c]
  /\ subs' = [subs EXCEPT ![c] = @ \cup {k}]
  /\ subscribedAt' = [subscribedAt EXCEPT ![k] = accepted[c]]
  /\ observed' = [observed EXCEPT ![k] = <<>>]
  /\ UNCHANGED <<store, mutex, tasks, accepted, outbox>>
  /\ HubRest

\* The connection ends: disconnect() of the hook ("close") or a lost
\* connection ("error").  Events still queued for it are dropped.
Disconnect(k, how) ==
  /\ connConv[k] # NoConv
  /\ subs' = [subs EXCEPT ![connConv[k]] = Unsubscribe(@, k, how)]
  /\ connConv' = [connConv EXCEPT ![k] = NoConv]
  /\ outbox' = [outbox EXCEPT ![k] = <<>>]
  /\ UNCHANGED <<store, mutex, tasks, accepted, observed, subscribedAt, links>>
  /\ HubRest

\* The next queued event reaches the connection: onmessage parses it and
\* hands it to onMessage.
HubDeliver(k) ==
  /\ outbox[k] # <<>>
  /\ outbox' = [outbox EXCEPT ![k] = Tail(@)]
  /\ observed' = [observed EXCEPT ![k] = Append(@, Head(outbox[k]))]
  /\ UNCHANGED <<store, mutex, tasks, accepted, subs, connConv, subscribedAt,
                 links>>
  /\ HubRest

NextHub ==
  \/ \E t \in 1..MaxTasks : Begin(t)
  \/ \E t \in 1..MaxTasks : Commit(t)
  \/ \E k \in Conns, c \in ConvIds : Subscribe(k, c)
  \/ \E k \in Conns, how \in {"close", "error"} : Disconnect(k, how)
  \/ \E k \in Conns : HubDeliver(k)

SpecHub == InitHub /\ [][NextHub]_vars

\* ------------------------------------------------- sending (SpecSend)
\* The member Me has the ChatPage open, mounted and connected, and writes,
\* picks photos and records audio while the owner locks and unlocks and the
\* socket may drop.  PostMessage on the backend follows spec.md 4.1: it is
\* refused while the conversation is locked.
TextInputs == {"", " ", "txt"}
\* messageInput.trim() on these inputs
TrimText(s) == IF s = " " THEN "" ELSE s

\* disabled of the Textarea, of PhotoUploader and of AudioRecorder
SendDisabledWhileSending == isSending

SendDisabled == isSending \/ conversation.is_locked

\* disabled of the submit button
SubmitDisabled ==
  TrimText(messageInput) = "" \/ isSending \/ conversation.is_locked

PostRequest(kind, content) == [kind |-> kind, content |-> content]

\* sendMessage up to its fetch: nothing happens without content or while a
\* send is under way.
sendMessage(kind) ==
  /\ sends < MaxMsgs
  /\ TrimText(messageInput) # "" \/ kind # "text"
  /\ ~isSending
  /\ isSending' = TRUE
  /\ postReq' = Append(postReq,
                       PostRequest(kind, IF kind = "text"
                                           THEN TrimText(messageInput)
                                           ELSE ""))
  /\ sends' = sends + 1
  /\ lockedPosts' = IF conversation.is_locked THEN lockedPosts \cup {kind}
                     ELSE lockedPosts

InitSend ==
  /\ srvMsgs = <<>>
  /\ srvConv = Conv("n1", FALSE, FALSE)
  /\ lockEvents = 0
  /\ analysisTriggers = 0
  /\ messages = srvMsgs
  /\ conversation = srvConv
  /\ shouldShowAnalysisButton = FALSE
  /\ showAnalysisModal = FALSE
  /\ MenuIdle
  /\ wsState = "open"
  /\ wsQueue = <<>>
  /\ reconnectCount = 0
  /\ reconnectTimer = FALSE
  /\ fetchPc = "done"
  /\ fetchData = srvMsgs
  /\ patchReqs = <<>>
  /\ patchResps = <<>>
  /\ HistoryIdle
  /\ ApplyIdle
  /\ WelcomeIdle
  /\ JoinIdle
  /\ AnalysisIdle
  /\ ManageIdle
  /\ SockIdle
  /\ HubIdle
  /\ SendIdle
  /\ PollIdle
  /\ AudioIdle

SendRest ==
  UNCHANGED <<menuVars, httpVars, histVars, applyVars, welcomeVars,
              manageVars, joinVars, analysisVars, sockVars, hubVars,
              pollVars, audioVars>>

ClientRest ==
  /\ UNCHANGED <<chatVars, wsVars, srvVars>>
  /\ SendRest

\* The Textarea's onChange
TypeText(s) ==
  /\ ~SendDisabled
  /\ s # messageInput
  /\ messageInput' = s
  /\ UNCHANGED <<isSending, dialogOpen, selectedPhoto, isRecording, audioBlob,
                 postReq, postResp, sentOk, lockedPosts, sends>>
  /\ ClientRest

\* The submit button
handleSubmit ==
  /\ ~SubmitDisabled
  /\ sendMessage("text")
  /\ UNCHANGED <<messageInput, dialogOpen, selectedPhoto, isRecording,
                 audioBlob, postResp, sentOk>>
  /\ ClientRest

\* Enter in the Textarea
handleKeyDown ==
  /\ ~SendDisabled
  /\ sendMessage("text")
  /\ UNCHANGED <<messageInput, dialogOpen, selectedPhoto, isRecording,
                 audioBlob, postResp, sentOk>>
  /\ ClientRest

\* PhotoUploader: the camera button opens the file dialog
handleCameraClick ==
  /\ ~selectedPhoto
  /\ ~dialogOpen
  /\ ~SendDisabled
  /\ dialogOpen' = TRUE
  /\ UNCHANGED <<isSending, messageInput, selectedPhoto, isRecording,
                 audioBlob, postReq, postResp, sentOk, lockedPosts, sends>>
  /\ ClientRest

\* PhotoUploader: a file is chosen in the dialog
handleFileSelect ==
  /\ dialogOpen
  /\ dialogOpen' = FALSE
  /\ selectedPhoto' = TRUE
  /\ UNCHANGED <<isSending, messageInput, isRecording, audioBlob, postReq,
                 postResp, sentOk, lockedPosts, sends>>
  /\ ClientRest

\* PhotoUploader: the send button of the preview; onSendPhoto, clearPhoto
handleSendPhoto ==
  /\ selectedPhoto
  /\ ~SendDisabled
  /\ sendMessage("photo")
  /\ selectedPhoto' = FALSE
  /\ UNCHANGED <<messageInput, dialogOpen, isRecording, audioBlob, postResp,
                 sentOk>>
  /\ ClientRest

\* AudioRecorder: the record button
handleStartRecording ==
  /\ ~isRecording
  /\ ~audioBlob
  /\ ~SendDisabled
  /\ isRecording' = TRUE
  /\ UNCHANGED <<isSending, messageInput, dialogOpen, selectedPhoto, audioBlob,
                 postReq, postResp, sentOk, lockedPosts, sends>>
  /\ ClientRest

\* AudioRecorder: the stop button of the recording state
stopRecordingClick ==
  /\ isRecording
  /\ isRecording' = FALSE
  /\ audioBlob' = TRUE
  /\ UNCHANGED <<isSending, messageInput, dialogOpen, selectedPhoto, postReq,
                 postResp, sentOk, lockedPosts, sends>>
  /\ ClientRest

\* AudioRecorder: the send button of the playback state; onSendAudio,
\* clearRecording
handleSendAudio ==
  /\ audioBlob
  /\ ~SendDisabled
  /\ sendMessage("audio")
  /\ audioBlob' = FALSE
  /\ UNCHANGED <<messageInput, dialogOpen, selectedPhoto, isRecording,
                 postResp, sentOk>>
  /\ ClientRest

\* PostMessage on the backend
ServerPost ==
  /\ postReq # <<>>
  /\ postReq' = Tail(postReq)
  /\ IF srvConv.is_locked
       THEN /\ postResp' = Append(postResp, [ok |-> FALSE, id |-> NoId])
            /\ UNCHANGED <<srvMsgs, wsQueue>>
       ELSE LET msg == Msg(Len(srvMsgs) + 1, Head(postReq).content, Me, <<>>,
                           EmptyVotes)
            IN /\ srvMsgs' = Append(srvMsgs, msg)
               /\ Broadcast(ChatMessageEv(msg))
               /\ postResp' = Append(postResp, [ok |-> TRUE, id |-> msg.id])
  /\ UNCHANGED <<chatVars, wsState, reconnectCount, reconnectTimer, srvConv,
                 lockEvents, analysisTriggers, isSending, messageInput,
                 dialogOpen, selectedPhoto, isRecording, audioBlob, sentOk,
                 lockedPosts, sends>>
  /\ SendRest

\* sendMessage after its fetch: on success only the input is cleared ("Message
\* will be added via WebSocket"); finally setIsSending(false)
PostResponse ==
  /\ postResp # <<>>
  /\ postResp' = Tail(postResp)
  /\ isSending' = FALSE
  /\ IF Head(postResp).ok
       THEN /\ messageInput' = ""
            /\ sentOk' = sentOk \cup {Head(postResp).id}
       ELSE UNCHANGED <<messageInput, sentOk>>
  /\ UNCHANGED <<dialogOpen, selectedPhoto, isRecording, audioBlob, postReq,
                 lockedPosts, sends>>
  /\ ClientRest

NextSend ==
  \/ \E s \in TextInputs : TypeText(s)
  \/ handleSubmit
  \/ handleKeyDown
  \/ handleCameraClick
  \/ handleFileSelect
  \/ handleSendPhoto
  \/ handleStartRecording
  \/ stopRecordingClick
  \/ handleSendAudio
  \/ ServerPost
  \/ PostResponse
  \/ \E b \in BOOLEAN : OwnerSetLock(b)
  \/ WsDeliver
  \/ WsDrop
  \/ WsReconnect
  \/ WsOpen

SpecSend == InitSend /\ [][NextSend]_vars

\* The browser, the network and the backend keep working: a queued event is
\* handed over, a timer fires, a connecting socket opens, a request is
\* served and its response is continued.
SpecSendFair ==
  /\ SpecSend
  /\ WF_vars(WsDeliver)
  /\ WF_vars(WsReconnect)
  /\ WF_vars(WsOpen)
  /\ WF_vars(ServerPost)
  /\ WF_vars(PostResponse)

\* ------------------------------------------- polling ChatPage (SpecPoll)
\* The variant of ChatPage that polls GET messages every second and has no
\* socket.  The interval callback and the fetchMessages it calls are those
\* of the first render: their isPolling, isLoading and isUserTyping are
\* false and their messages is the initial list, whatever the state is by
\* then.  Responses arrive in any order.
\*
\* Poll requests sent by the interval
MaxTicks == 2

\* messages of the first render (the prop's default)
initialMessages == <<>>

\* The comparison of a poll response with the list of the closure
PollChanged(data) ==
  \/ Cardinality(Ids(initialMessages)) # Cardinality(Ids(data))
  \/ \E i \in 1..Len(data) : data[i].id \notin Ids(initialMessages)

PollRequest(isPollingRequest) ==
  [polling |-> isPollingRequest, pc |-> "requested", data |-> <<>>]

InitPoll ==
  /\ srvMsgs = <<>>
  /\ srvConv = Conv("n1", FALSE, FALSE)
  /\ lockEvents = 0
  /\ analysisTriggers = 0
  /\ messages = initialMessages
  /\ conversation = srvConv
  /\ shouldShowAnalysisButton = FALSE
  /\ showAnalysisModal = FALSE
  /\ MenuIdle
  /\ TransportIdle
  /\ HistoryIdle
  /\ ApplyIdle
  /\ WelcomeIdle
  /\ JoinIdle
  /\ AnalysisIdle
  /\ ManageIdle
  /\ SockIdle
  /\ HubIdle
  /\ SendIdle
  /\ AudioIdle
  /\ polls = <<PollRequest(FALSE)>>
  /\ ticks = 0

PollRest ==
  UNCHANGED <<menuVars, wsVars, httpVars, histVars, applyVars, welcomeVars,
              manageVars, joinVars, analysisVars, sockVars, hubVars,
              conversation, shouldShowAnalysisButton, showAnalysisModal,
              dialogOpen, selectedPhoto, isRecording, audioBlob, lockedPosts,
              sentOk, audioVars>>

\* The interval fires: its guard reads the first render's flags, so the
\* request is sent.
IntervalTick ==
  /\ ticks < MaxTicks
  /\ ticks' = ticks + 1
  /\ polls' = Append(polls, PollRequest(TRUE))
  /\ UNCHANGED <<messages, srvVars, isSending, messageInput, postReq,
                 postResp, sends>>
  /\ PollRest

\* The server answers GET messages with its current sequence.
PollServe(i) ==
  /\ i \in 1..Len(polls)
  /\ polls[i].pc = "requested"
  /\ polls' = [polls EXCEPT ![i].pc = "responded", ![i].data = srvMsgs]
  /\ UNCHANGED <<messages, srvVars, isSending, messageInput, postReq,
                 postResp, sends, ticks>>
  /\ PollRest

\* fetchMessages after its await
PollInstall(i) ==
  /\ i \in 1..Len(polls)
  /\ polls[i].pc = "responded"
  /\ polls' = RemoveAt(polls, i)
  /\ messages' = IF polls[i].polling /\ ~PollChanged(polls[i].data)
                   THEN messages
                   ELSE polls[i].data
  /\ UNCHANGED <<srvVars, isSending, messageInput, postReq, postResp, sends,
                 ticks>>
  /\ PollRest

\* The Textarea's onChange
TypePolling(s) ==
  /\ ~isSending
  /\ s # messageInput
  /\ messageInput' = s
  /\ UNCHANGED <<messages, srvVars, isSending, postReq, postResp, sends,
                 polls, ticks>>
  /\ PollRest

\* sendMessage up to its await
sendMessagePolling ==
  /\ sends < MaxMsgs
  /\ TrimText(messageInput) # ""
  /\ ~isSending
  /\ isSending' = TRUE
  /\ postReq' = Append(postReq, PostRequest("text", TrimText(messageInput)))
  /\ sends' = sends + 1
  /\ UNCHANGED <<messages, srvVars, messageInput, postResp, polls, ticks>>
  /\ PollRest

\* PostMessage on the backend; the response carries the stored message.
ServerPostPolling ==
  /\ postReq # <<>>
  /\ postReq' = Tail(postReq)
  /\ LET msg == Msg(Len(srvMsgs) + 1, Head(postReq).content, Me, <<>>,
                    EmptyVotes)
     IN /\ srvMsgs' = Append(srvMsgs, msg)
        /\ postResp' = Append(postResp, [ok |-> TRUE, data |-> msg])
  /\ UNCHANGED <<messages, srvConv, lockEvents, analysisTriggers, isSending,
                 messageInput, sends, polls, ticks>>
  /\ PollRest

\* sendMessage after its await: setMessages(prev => [...prev, response.data])
PostResponsePolling ==
  /\ postResp # <<>>
  /\ postResp' = Tail(postResp)
  /\ messages' = AppendAlways(messages, Head(postResp).data)
  /\ messageInput' = ""
  /\ isSending' = FALSE
  /\ UNCHANGED <<srvVars, postReq, sends, polls, ticks>>
  /\ PollRest

NextPoll ==
  \/ IntervalTick
  \/ \E i \in 1..(MaxTicks + 1) : PollServe(i)
  \/ \E i \in 1..(MaxTicks + 1) : PollInstall(i)
  \/ \E s \in TextInputs : TypePolling(s)
  \/ sendMessagePolling
  \/ ServerPostPolling
  \/ PostResponsePolling

SpecPoll == InitPoll /\ [][NextPoll]_vars

\* --------------------------------------------- useAudioRecorder (SpecAudio)
\* One instance of the hook.  startRecording waits for getUserMedia before it
\* touches the state; the callers call it at any time, also while an earlier
\* call waits.  An interval is running from setInterval to clearInterval,
\* whether timerRef still holds it or not.
\*
\* Calls of startRecording, seconds counted
MaxStarts == 3
MaxSeconds == 2

\* The intervals that are running
RunningTimers == strayIntervals + (IF audioTimer THEN 1 ELSE 0)

\* startTimer: timerRef.current = setInterval(...), whatever the ref held
startTimer ==
  /\ audioTimer' = TRUE
  /\ strayIntervals' = IF audioTimer THEN strayIntervals + 1
                        ELSE strayIntervals

\* stopTimer: clears the interval the ref holds
stopTimer ==
  /\ audioTimer' = FALSE
  /\ UNCHANGED strayIntervals

InitAudio ==
  /\ OldIdle
  /\ SockIdle
  /\ HubIdle
  /\ SendIdle
  /\ PollIdle
  /\ AudioIdle

AudioRest ==
  UNCHANGED <<oldVars, wsVars, sockVars, hubVars, pollVars, isSending,
              messageInput, dialogOpen, selectedPhoto, postReq, postResp,
              sentOk, lockedPosts, sends>>

\* startRecording up to its await
startRecording ==
  /\ starts < MaxStarts
  /\ starts' = starts + 1
  /\ pendingStarts' = pendingStarts + 1
  /\ UNCHANGED <<isRecording, isPaused, recordingTime, audioBlob, audioTimer,
                 strayIntervals, stopsPending>>
  /\ AudioRest

\* getUserMedia resolves: startRecording after its await
StartResolved ==
  /\ pendingStarts > 0
  /\ pendingStarts' = pendingStarts - 1
  /\ isRecording' = TRUE
  /\ isPaused' = FALSE
  /\ recordingTime' = 0
  /\ startTimer
  /\ UNCHANGED <<audioBlob, stopsPending, starts>>
  /\ AudioRest

\* getUserMedia rejects: startRecording throws
StartRejected ==
  /\ pendingStarts > 0
  /\ pendingStarts' = pendingStarts - 1
  /\ UNCHANGED <<isRecording, isPaused, recordingTime, audioBlob, audioTimer,
                 strayIntervals, stopsPending, starts>>
  /\ AudioRest

stopRecording ==
  /\ isRecording
  /\ stopsPending' = stopsPending + 1
  /\ isRecording' = FALSE
  /\ isPaused' = FALSE
  /\ stopTimer
  /\ UNCHANGED <<recordingTime, audioBlob, pendingStarts, starts>>
  /\ AudioRest

pauseRecording ==
  /\ isRecording /\ ~isPaused
  /\ isPaused' = TRUE
  /\ stopTimer
  /\ UNCHANGED <<isRecording, recordingTime, audioBlob, pendingStarts,
                 stopsPending, starts>>
  /\ AudioRest

resumeRecording ==
  /\ isRecording /\ isPaused
  /\ isPaused' = FALSE
  /\ startTimer
  /\ UNCHANGED <<isRecording, recordingTime, audioBlob, pendingStarts,
                 stopsPending, starts>>
  /\ AudioRest

clearRecording ==
  /\ audioBlob' = FALSE
  /\ recordingTime' = 0
  /\ isRecording' = FALSE
  /\ isPaused' = FALSE
  /\ stopTimer
  /\ stopsPending' = IF isRecording THEN stopsPending + 1 ELSE stopsPending
  /\ UNCHANGED <<pendingStarts, starts>>
  /\ AudioRest

\* mediaRecorder.onstop
RecorderStopped ==
  /\ stopsPending > 0
  /\ stopsPending' = stopsPending - 1
  /\ audioBlob' = TRUE
  /\ UNCHANGED <<isRecording, isPaused, recordingTime, audioTimer,
                 strayIntervals, pendingStarts, starts>>
  /\ AudioRest

\* A running interval fires: setRecordingTime(prev => prev + 1)
IntervalFires ==
  /\ RunningTimers > 0
  /\ recordingTime < MaxSeconds
  /\ recordingTime' = recordingTime + 1
  /\ UNCHANGED <<isRecording, isPaused, audioBlob, audioTimer, strayIntervals,
                 pendingStarts, stopsPending, starts>>
  /\ AudioRest

NextAudio ==
  \/ startRecording
  \/ StartResolved
  \/ StartRejected
  \/ stopRecording
  \/ pauseRecording
  \/ resumeRecording
  \/ clearRecording
  \/ RecorderStopped
  \/ IntervalFires

SpecAudio == InitAudio /\ [][NextAudio]_vars

\* ------------------------------------------------------------ properties
NoDuplicateIds(list) ==
  \A i, j \in 1..Len(list) : list[i].id = list[j].id => i = j

\* C1: once a fetched list is installed, a MessagePosted event (chat_message
\* or raw message object) never produces two entries with one id: an event
\* whose id is present leaves the list unchanged and an event with a new id
\* appends exactly one entry.  Every step of SpecApply delivers ev'.
C1_PostedDedupAppend ==
  [][ev' \in PostedEvents =>
       /\ NoDuplicateIds(messages')
       /\ SomeId(messages, ev'.message.id) => messages' = messages
       /\ ~SomeId(messages, ev'.message.id) =>
            messages' = Append(messages, ev'.message)]_vars

\* The part of C1 the code keeps: no MessagePosted event, in either wire form,
\* makes two entries share an id, and a known id leaves the list unchanged.
C1_NoDuplicates ==
  [][ev' \in PostedEvents =>
       /\ NoDuplicateIds(messages')
       /\ SomeId(messages, ev'.message.id) => messages' = messages]_vars

DomainEventTypes ==
  {"chat_message", "message_reaction_updated", "message_vote_updated",
   "conversation_name_changed", "conversation_lock_changed",
   "conversation_visibility_changed"}

\* C5: applying the same domain event twice in a row yields the same message
\* list, conversation name and flags as applying it once.
C5_Idempotent ==
  [][(applied' = 2 /\ ev'.type \in DomainEventTypes) =>
       (messages' = messages /\ conversation' = conversation)]_vars

\* C5 witness: a chat_message that changed the list was applied a second time.
C5_Witness ==
  /\ applied = 2
  /\ changed
  /\ ev.type = "chat_message"
  /\ Len(messages) = 2

\* C6: a ReactionChanged / VoteChanged event for id m replaces the entry with
\* id m by the event's snapshot and keeps every other entry, the order and
\* the length; with no entry of id m the list is unchanged.
C6_ReplaceById ==
  [][ev'.type \in {"message_reaction_updated", "message_vote_updated"} =>
       /\ Len(messages') = Len(messages)
       /\ \A i \in 1..Len(messages) :
            /\ messages[i].id = ev'.message_id => messages'[i] = ev'.message
            /\ messages[i].id # ev'.message_id => messages'[i] = messages[i]
       /\ ~SomeId(messages, ev'.message_id) => messages' = messages]_vars

\* C6 witness: a snapshot event replaced one entry of a two-entry list.
C6_Witness ==
  /\ applied = 1
  /\ changed
  /\ ev.type = "message_vote_updated"
  /\ Len(messages) = 2
  /\ \E i \in 1..2 : messages[i] = ev.message

\* C2: whatever the order of the fetch response and the WebSocket events, the
\* list holds every message of the fetched snapshot and every message a
\* MessagePosted event delivered.
C2_MergeKeepsAll ==
  fetchPc = "done" => (Ids(fetchData) \cup delivered) \subseteq Ids(messages)

\* Nothing is on its way to the observed client, whose socket is open.
Settled ==
  /\ fetchPc = "done"
  /\ wsState = "open"
  /\ wsQueue = <<>>
  /\ patchReqs = <<>>
  /\ patchResps = <<>>

\* C3: after an abnormal close and a reconnect the client's view (messages,
\* is_locked, is_visible) comes to equal the server's state.  In a settled
\* state nothing but a new command changes the view, so the view has to be
\* equal there.  The client issued no command and every mutation happened
\* after its fetch, with the socket connected or after a close.
C3_ReconnectedViewEqualsServer ==
  (Settled /\ drops > 0 /\ cleanStart /\ ~ownIssued) =>
    /\ messages = srvMsgs
    /\ conversation.is_locked = srvConv.is_locked
    /\ conversation.is_visible = srvConv.is_visible

\* C4: when the client's own React / Vote overlaps with another member's
\* command, its copy of the message equals the server's once the PATCH
\* response and all events are applied, in any arrival order.  The socket
\* never closed and every mutation happened after the fetch.
C4_ResponseAndEventsAgree ==
  (Settled /\ drops = 0 /\ cleanStart /\ ownIssued) => messages = srvMsgs

VoteKeys(id) == {k \in DOMAIN lastVote : k[1] = id}

\* C7: the votes map of a message holds, for each voter, the votee of that
\* voter's most recent Vote command and nothing else; its size never exceeds
\* the number of members that voted on the message.
C7_VotesLastWriteWins ==
  \A i \in 1..Len(srvMsgs) :
    LET m == srvMsgs[i]
    IN /\ \A voter \in DOMAIN m.votes :
            /\ <<m.id, voter>> \in DOMAIN lastVote
            /\ m.votes[voter] = lastVote[<<m.id, voter>>]
       /\ \A k \in VoteKeys(m.id) : k[2] \in DOMAIN m.votes
       /\ Cardinality(DOMAIN m.votes) <= Cardinality(VoteKeys(m.id))

\* C7 witness: the observed member voted again, for someone else, and the
\* map shows the later vote only.
C7_Witness ==
  /\ Len(srvMsgs) > 0
  /\ <<srvMsgs[1].id, Me>> \in revoted
  /\ DOMAIN srvMsgs[1].votes = {Me}
  /\ srvMsgs[1].votes[Me] = lastVote[<<srvMsgs[1].id, Me>>]

\* C8: a (emoji, issuer) pair is in the reacts list exactly when that member
\* commanded that emoji an odd number of times, whatever the others did, and
\* the list never holds a pair twice.
C8_ReactToggle ==
  \A i \in 1..Len(srvMsgs) :
    LET m == srvMsgs[i]
    IN /\ \A e \in Emojis, u \in Users :
            HasReact(m, e, u) <=> <<m.id, e, u>> \in toggled
       /\ \A j, k \in 1..Len(m.reacts) : m.reacts[j] = m.reacts[k] => j = k

\* C8 witness: the observed member reacted and un-reacted while the other
\* member's reaction with the same emoji stays.
C8_Witness ==
  /\ Len(srvMsgs) > 0
  /\ \E e \in Emojis :
       /\ <<srvMsgs[1].id, e, Me>> \in unreacted
       /\ ~HasReact(srvMsgs[1], e, Me)
       /\ HasReact(srvMsgs[1], e, Owner)

\* C9: the client issues a React request only while its local is_locked is
\* false and a Vote request only while it is true; the server changes reacts
\* only while is_locked is false and votes only while it is true.
C9_ExclusiveWindows ==
  [][/\ Len(patchReqs') > Len(patchReqs) =>
          LET r == patchReqs'[Len(patchReqs')]
          IN /\ r.cmd.kind = "react" => ~conversation.is_locked
             /\ r.cmd.kind = "vote" => conversation.is_locked
     /\ \A i \in 1..Len(srvMsgs) :
          /\ srvMsgs'[i].reacts # srvMsgs[i].reacts => ~srvConv.is_locked
          /\ srvMsgs'[i].votes # srvMsgs[i].votes => srvConv.is_locked]_vars

\* C9 witness: the observed member's reaction was accepted before the lock
\* and their vote after it.
C9_Witness ==
  /\ Len(srvMsgs) > 0
  /\ HasReact(srvMsgs[1], "thumb", Me)
  /\ Me \in DOMAIN srvMsgs[1].votes
  /\ srvConv.is_locked

\* C10: LockChanged is emitted once per change of is_locked and the analysis
\* is triggered once per change from false to true; a SetLock that finds the
\* requested value in place changes nothing and emits nothing; clicks on the
\* lock toggle made before the conversation list is installed again all send
\* the same value, and once the server has handled them there is exactly one
\* LockChanged and one analysis trigger.
C10_LockOncePerChange ==
  /\ [](/\ lockEvents =
            2 * analysisTriggers - (IF srvConv.is_locked THEN 1 ELSE 0)
        /\ Cardinality(lockSent) <= 1
        /\ (/\ ~refetched
            /\ lockSent # {}
            /\ \A n \in 1..Len(convReqs) :
                 convReqs[n].body.field # "is_locked")
           => (lockEvents = 1 /\ analysisTriggers = 1))
  /\ [][/\ lockEvents' =
            lockEvents + (IF srvConv'.is_locked # srvConv.is_locked
                            THEN 1 ELSE 0)
        /\ analysisTriggers' =
            analysisTriggers + (IF ~srvConv.is_locked /\ srvConv'.is_locked
                                  THEN 1 ELSE 0)
        /\ noops' > noops =>
             (srvConv' = srvConv /\ wsQueue' = wsQueue)]_vars

\* C10 witness: two clicks on the lock toggle before any refetch, both
\* handled by the server as SetLock(true), the second one a no-op.
C10_Witness ==
  /\ ~refetched
  /\ noops = 1
  /\ lockSent = {TRUE}
  /\ convReqs = <<>>
  /\ srvConv.is_locked
  /\ lockEvents = 1
  /\ analysisTriggers = 1

\* C11: a SetLock or SetVisibility of a member who is not the owner changes
\* neither flag and produces no event and no analysis trigger, and the
\* WelcomeScreen sends such a command only for the user equal to users_ids[0].
C11_OwnerOnlyFlags ==
  [][/\ forbidden' > forbidden =>
          /\ srvConv' = srvConv
          /\ wsQueue' = wsQueue
          /\ lockEvents' = lockEvents
          /\ analysisTriggers' = analysisTriggers
     /\ Len(convReqs') > Len(convReqs) =>
          convReqs'[Len(convReqs')].user = UsersIds[1]]_vars

\* C11 witness: the owner revealed the conversation through the WelcomeScreen,
\* another member's SetVisibility was rejected, and the flag is as the owner
\* set it.
C11_Witness ==
  /\ forbidden > 0
  /\ clicks > 0
  /\ convReqs = <<>>
  /\ srvConv.is_visible
  /\ ~srvConv.is_locked

\* C16: a SetLock command and an applied LockChanged event leave is_visible
\* and the name as they were; a SetVisibility command and an applied
\* VisibilityChanged event leave is_locked and the name as they were.
C16_LockVisibilityIndependent ==
  [][/\ \A n \in 1..Len(convReqs) :
          convReqs' = RemoveAt(convReqs, n) =>
            /\ srvConv'.name = srvConv.name
            /\ convReqs[n].body.field = "is_locked" =>
                 srvConv'.is_visible = srvConv.is_visible
            /\ convReqs[n].body.field = "is_visible" =>
                 /\ srvConv'.is_locked = srvConv.is_locked
                 /\ lockEvents' = lockEvents
     /\ (wsQueue # <<>> /\ wsQueue' = Tail(wsQueue)) =>
          /\ conversation'.name = conversation.name
          /\ Head(wsQueue).type = "conversation_lock_changed" =>
               conversation'.is_visible = conversation.is_visible
          /\ Head(wsQueue).type = "conversation_visibility_changed" =>
               /\ conversation'.is_locked = conversation.is_locked
               /\ shouldShowAnalysisButton' = shouldShowAnalysisButton]_vars

\* C16 witness: the conversation was revealed and then locked, and the
\* observed client, having applied both events, shows it locked and visible.
C16_Witness ==
  /\ srvConv.is_locked
  /\ srvConv.is_visible
  /\ conversation.is_locked
  /\ conversation.is_visible
  /\ wsQueue = <<>>

\* C12: the modal issues a rename request only when the signed-in user is
\* the owner, and the shared name changes only while a rename of the owner
\* is handled.
C12_RenameOnlyByOwner ==
  [][/\ (Len(saveReqs') > Len(saveReqs)
           /\ saveReqs'[Len(saveReqs')].kind = "rename")
          => saveReqs'[Len(saveReqs')].user = UsersIds[1]
     /\ (Len(saveResps') > Len(saveResps)
           /\ saveResps'[Len(saveResps')].req.kind = "rename"
           /\ saveResps'[Len(saveResps')].req.user # UsersIds[1])
          => /\ ~saveResps'[Len(saveResps')].ok
             /\ srvConv' = srvConv
             /\ wsQueue' = wsQueue]_vars

\* C13: the modal issues a membership update only for the signed-in user's
\* own pseudo and smiley, an update for another user is refused and changes
\* no stored value, and a save changes the local copy of no other user.
C13_OwnDataOnly ==
  [][/\ (Len(saveReqs') > Len(saveReqs)
           /\ saveReqs'[Len(saveReqs')].kind = "member")
          => saveReqs'[Len(saveReqs')].target = currentUser
     /\ (Len(saveResps') > Len(saveResps)
           /\ saveResps'[Len(saveResps')].req.kind = "member"
           /\ saveResps'[Len(saveResps')].req.user
                # saveResps'[Len(saveResps')].req.target)
          => /\ ~saveResps'[Len(saveResps')].ok
             /\ srvUsers' = srvUsers
     /\ Len(saveResps') < Len(saveResps)
          => \A u \in Users \ {currentUser} : users'[u] = users[u]]_vars

\* C14: a save of an empty or all-blank pseudo or smiley clears that value
\* in the stored membership data, which takes the field sent as an explicit
\* empty string, and keeps the other field, and once the save has succeeded the
\* modal shows for that user what is stored.
C14_EmptyClears ==
  [][/\ \A n \in 1..Len(saveReqs) :
          (saveReqs' = RemoveAt(saveReqs, n)
             /\ saveReqs[n].kind = "member"
             /\ saveReqs[n].user = saveReqs[n].target
             /\ \A i \in 1..Len(saveReqs[n].input) :
                  saveReqs[n].input[i] = " ")
            => srvUsers'[saveReqs[n].target][saveReqs[n].field] = <<>>
     /\ \A n \in 1..Len(saveReqs), f \in {"pseudo", "smiley"} :
          (saveReqs' = RemoveAt(saveReqs, n)
             /\ saveReqs[n].kind = "member" /\ saveReqs[n].field # f)
            => srvUsers'[saveReqs[n].target][f]
                 = srvUsers[saveReqs[n].target][f]
     /\ \A n \in 1..Len(saveResps) :
          (saveResps' = RemoveAt(saveResps, n)
             /\ saveResps[n].ok /\ saveResps[n].req.kind = "member")
            => users'[saveResps[n].req.target]
                 = srvUsers[saveResps[n].req.target]]_vars

\* sent is input without its leading and trailing blanks, and is not empty.
IsTrimmed(sent, input) ==
  /\ sent # <<>>
  /\ sent[1] # " "
  /\ sent[Len(sent)] # " "
  /\ \E i, j \in 0..Len(input) :
       /\ i + Len(sent) + j = Len(input)
       /\ \A k \in 1..i : input[k] = " "
       /\ \A k \in (Len(input) - j + 1)..Len(input) : input[k] = " "
       /\ SubSeq(input, i + 1, i + Len(sent)) = sent

\* C15: for every input string a rename sends the trimmed input when that is
\* not empty and the previous name otherwise, so it sends no empty name over
\* a non-empty one; the backend stores the name sent and the client stores
\* locally the name it sent.
C15_RenameTrimmed ==
  [][/\ (Len(saveReqs') > Len(saveReqs)
           /\ saveReqs'[Len(saveReqs')].kind = "rename")
          => LET sent == saveReqs'[Len(saveReqs')].body.name
                 input == conversationNameInput
             IN /\ IF \E k \in 1..Len(input) : input[k] # " "
                     THEN IsTrimmed(sent, input)
                     ELSE sent = conversation.name
                /\ conversation.name # <<>> => sent # <<>>
     /\ \A n \in 1..Len(saveReqs) :
          (saveReqs' = RemoveAt(saveReqs, n) /\ saveReqs[n].kind = "rename")
            => srvConv'.name = saveReqs[n].body.name
     /\ \A n \in 1..Len(saveResps) :
          (saveResps' = RemoveAt(saveResps, n)
             /\ saveResps[n].req.kind = "rename" /\ saveResps[n].ok)
            => conversation'.name = saveResps[n].req.body.name]_vars

\* C15: the input " b " was saved: "b" is stored and shown.
C15_Witness ==
  /\ conversationNameInput = <<" ", "b", " ">>
  /\ cmds = 1
  /\ saveReqs = <<>>
  /\ saveResps = <<>>
  /\ wsQueue = <<>>
  /\ srvConv.name = <<"b">>
  /\ conversation.name = <<"b">>

\* C17: a React, Vote, rename or membership request that is refused emits no
\* event and changes nothing stored, and when its failure comes back the
\* client's messages, conversation and users are what they were.
C17_FailedCommandNotApplied ==
  [][/\ (Len(patchResps') > Len(patchResps)
           /\ ~patchResps'[Len(patchResps')].ok)
          => /\ wsQueue' = wsQueue
             /\ srvMsgs' = srvMsgs
             /\ srvConv' = srvConv
     /\ (Len(saveResps') > Len(saveResps)
           /\ ~saveResps'[Len(saveResps')].ok)
          => /\ wsQueue' = wsQueue
             /\ srvConv' = srvConv
             /\ srvUsers' = srvUsers
     /\ \A n \in 1..Len(patchResps) :
          (patchResps' = RemoveAt(patchResps, n) /\ ~patchResps[n].ok)
            => /\ messages' = messages
               /\ conversation' = conversation
               /\ users' = users
     /\ \A n \in 1..Len(saveResps) :
          (saveResps' = RemoveAt(saveResps, n) /\ ~saveResps[n].ok)
            => /\ messages' = messages
               /\ conversation' = conversation
               /\ users' = users]_vars

\* C17: a refused reaction and a refused update of another member's pseudo,
\* typed over, have both come back.
C17_Witness ==
  /\ "react" \in failed
  /\ "member" \in failed
  /\ editingUserId = UsersIds[1]
  /\ pseudoInput # users[UsersIds[1]].pseudo
  /\ patchResps = <<>>
  /\ saveResps = <<>>

\* C18: whatever joins are sent, no user is twice in the member list and
\* UserJoined is emitted once per user, by the join that adds the user; App
\* sends its join request only when the user is not in the member set it
\* fetched, and has at most one join flow under way.
C18_JoinOnce ==
  /\ [](/\ \A i, j \in 1..Len(srvMembers) :
             srvMembers[i] = srvMembers[j] => i = j
        /\ \A i, j \in 1..Len(userJoined) :
             userJoined[i] = userJoined[j] => i = j
        /\ Len(flows) <= 1)
  /\ [][/\ Len(userJoined') > Len(userJoined)
             => /\ \A i \in 1..Len(srvMembers) :
                     srvMembers[i] # userJoined'[Len(userJoined')]
                /\ srvMembers' =
                     Append(srvMembers, userJoined'[Len(userJoined')])
        /\ joinsIssued' > joinsIssued
             => \E i \in 1..Len(flows) :
                  /\ flows[i].pc = "gotten"
                  /\ flows'[i].pc = "join"
                  /\ "A" \notin flows[i].members]_vars

\* C18: App has joined through the link while another session of the same
\* user joined too.
C18_Witness ==
  /\ joinsIssued = 1
  /\ \E k \in 1..Len(directJoins) : directJoins[k] = "A"
  /\ flows = <<>>
  /\ currentConversation
  /\ srvMembers = <<"B", "A">>
  /\ userJoined = <<"A">>

\* C19: an analysis that was generated stays stored when the conversation is
\* unlocked, and a client that has applied every event still has a way to
\* it: the View Analysis button is rendered or the modal is open.
C19_AnalysisStillViewable ==
  /\ [][generated' >= generated]_vars
  /\ []((generated > 0 /\ wsQueue = <<>>)
          => \/ conversation.is_locked
             \/ shouldShowAnalysisButton
             \/ showAnalysisModal)

\* C20: a lock does not wait for the analysis, and the modal is never in its
\* error state because the analysis it asked for is not available yet.
C20_AbsenceIsNoError ==
  /\ [][srvConv'.is_locked # srvConv.is_locked
          => generated' = generated]_vars
  /\ [](analysisError => errorCause # "absent")

\* C26: counting from the last successful open, at most reconnectAttempts
\* reconnections are scheduled; every open event sets the counter to 0; a
\* close event that finds the limit reached schedules nothing and sets
\* connectionError to 'Failed to reconnect after multiple attempts'.
UnclosedCount ==
  InState("connecting") + InState("open") + InState("closingConnecting")
  + InState("closingOpen")

LiveCount == InState("connecting") + InState("open")

OpenEventStep == made' = made /\ InState("open")' = InState("open") + 1

CloseEventStep == made' = made /\ UnclosedCount' = UnclosedCount - 1

C26_ReconnectBounded ==
  /\ [](sinceOpen <= reconnectAttempts)
  /\ [][OpenEventStep => reconnectCount' = 0]_vars
  /\ [][(CloseEventStep /\ reconnectCount >= reconnectAttempts) =>
          /\ UNCHANGED <<timerRef, strayTimers, sinceOpen>>
          /\ mount = "mounted" => connectionError' = FailedText]_vars

C26_Witness ==
  /\ sinceOpen = reconnectAttempts
  /\ connectionError = FailedText
  /\ UnclosedCount = 0

\* C27: once disconnect() has run, and until connect() is called from
\* outside again, the hook constructs no WebSocket: no reconnect timer
\* fires.
C27_DisconnectIsFinal ==
  [][(disconnected /\ disconnected') => made' = made]_vars

\* C28: at most one WebSocket of the instance is connecting or open.
C28_AtMostOneSocket == LiveCount <= 1

\* C21: the mutations of one conversation are applied one at a time: when
\* every command is through, each accepted command whose user sent no other
\* command of that kind to the conversation has its effect in the stored
\* message; and a mutator waiting for a conversation whose critical section
\* is free can enter, whatever is held for other conversations.
Alone(t) ==
  \A o \in 1..MaxTasks :
    (/\ o # t
     /\ tasks[o].conv = tasks[t].conv
     /\ tasks[o].req.cmd.kind = tasks[t].req.cmd.kind)
      => tasks[o].req.cmd.user # tasks[t].req.cmd.user

Present(t) ==
  LET cmd == tasks[t].req.cmd
      msg == store[tasks[t].conv]
  IN IF cmd.kind = "react" THEN HasReact(msg, cmd.emoji, cmd.user)
     ELSE cmd.user \in DOMAIN msg.votes /\ msg.votes[cmd.user] = cmd.votee

AllThrough == \A t \in 1..MaxTasks : tasks[t].pc \in {"done", "refused"}

C21_NoLostUpdate ==
  /\ AllThrough =>
       \A t \in 1..MaxTasks : (tasks[t].pc = "done" /\ Alone(t)) => Present(t)
  /\ \A t \in 1..MaxTasks :
       (tasks[t].pc = "waiting" /\ ~mutex[tasks[t].conv]) => ENABLED Begin(t)

C21_Witness ==
  /\ AllThrough
  /\ \E t, o \in 1..MaxTasks :
       /\ t # o
       /\ tasks[t].pc = "done" /\ tasks[o].pc = "done"
       /\ tasks[t].conv = tasks[o].conv
       /\ tasks[t].req.cmd.user # tasks[o].req.cmd.user
       /\ Present(t) /\ Present(o)

\* C22: a connection observes the events of its conversation in the order
\* in which they were accepted.
C22_AcceptanceOrder ==
  \A k \in Conns : \A i, j \in 1..Len(observed[k]) :
    i < j => /\ observed[k][i].conv = observed[k][j].conv
             /\ observed[k][i].seq < observed[k][j].seq

C22_Witness ==
  \E k \in Conns :
    /\ Len(observed[k]) >= 2
    /\ \E o \in Conns \ {k} : connConv[o] \notin {NoConv, connConv[k]}

\* C23: the subscriber set of a conversation holds exactly the connections
\* open for it, and a connection observes only events that were accepted
\* after it had subscribed.
C23_SubscribersAreOpen ==
  /\ \A c \in ConvIds : subs[c] = {k \in Conns : connConv[k] = c}
  /\ \A k \in Conns : \A i \in 1..Len(observed[k]) :
       observed[k][i].seq > subscribedAt[k]
  /\ \A k \in Conns : \A i \in 1..Len(outbox[k]) :
       /\ outbox[k][i].conv = connConv[k]
       /\ outbox[k][i].seq > subscribedAt[k]

C23_Witness ==
  \E k \in Conns :
    /\ connConv[k] # NoConv
    /\ subscribedAt[k] > 0
    /\ links = MaxLinks
    /\ observed[k] # <<>>

\* C24: once sendMessage has seen the success of its request, the sender's
\* list comes to hold the new message, whatever the state of the socket.
C24_SentMessageShown ==
  \A id \in 1..MaxMsgs : (id \in sentOk) ~> SomeId(messages, id)

C29_PollingListConsistent ==
  /\ [](NoDuplicateIds(messages))
  /\ [][\A i \in 1..Len(polls) :
          (/\ polls[i].pc = "responded"
           /\ Len(polls') < Len(polls)
           /\ polls' = RemoveAt(polls, i))
            => \A j \in 1..Len(polls[i].data) :
                 SomeId(messages', polls[i].data[j].id)]_vars

\* C30: isPaused implies isRecording, and exactly one interval is running
\* while the hook records and is not paused, none otherwise.
C30_TimerMatchesState ==
  /\ isPaused => isRecording
  /\ RunningTimers = (IF isRecording /\ ~isPaused THEN 1 ELSE 0)

====
